---------------------------- MODULE Spec2Model ----------------------------
(***************************************************************************)
(* A model of two subsystems of core-alljoyn:                              *)
(*                                                                         *)
(*  - the router's RuleTable (alljoyn_core/router/RuleTable.h): a          *)
(*    std::multimap<BusEndpoint, Rule> protected by one qcc::Mutex;        *)
(*  - the ECDH key agreement of common/src/CryptoECCMath.cc               *)
(*    (ECDH_generate, ECDH_derive_pt and the bigval/digit256 conversions). *)
(*                                                                         *)
(* The two subsystems share no state; each has its own specification       *)
(* (SpecRT, SpecECDH) which leaves the other's variables alone.            *)
(***************************************************************************)
EXTENDS Integers, Sequences, FiniteSets, TLC

VARIABLES
    (* ---- RuleTable ---- *)
    rules,      \* RuleTable::rules, the multimap, as the key-ordered sequence of its entries
    holder,     \* RuleTable::lock: the thread that holds the mutex, or "none"
    pc,         \* per thread: where it is inside its current RuleTable call
    op,         \* per thread: the call it is making (name and arguments)
    local,      \* per thread: the multimap content its call read under the lock
    it,         \* per thread: the RuleIterator of a manual traversal
    result,     \* per thread: the value its call is about to return
    ref,        \* history: a single-threaded reference table, run in lock order
    expect,     \* history: what the reference execution returns for the thread's call
    disjoint,   \* harness: TRUE when every thread only names its own endpoint
    (* ---- ECDH: the callers' buffers ---- *)
    priv,       \* per party: the bigval_t its ECDH_generate writes through k
    pub,        \* per party: the affine_point_t its ECDH_generate writes through P1
    secret,     \* per party: the affine_point_t its ECDH_derive_pt writes through tgt
    genRet,     \* per party: what its last ECDH_generate returned, or "none"
    derRet,     \* per party: what its ECDH_derive_pt returned, or "none"
    used,       \* per party: the arguments (k, Q) of its ECDH_derive_pt call
    (* ---- ECDH: the call in progress ---- *)
    fn,         \* the function being executed: "none", "generate" or "derive"
    fpc,        \* the position inside it
    caller,     \* the party that made the (last) call
    gen,        \* ECDH_generate's locals: r, Q, status
    der,        \* ECDH_derive_pt's locals: ourPrivate, theirPublic, sharedSecret, status, ajstatus
    entry,      \* history: the caller's k and P1 when ECDH_generate was entered
    rngErr,     \* history: the error the random source returned in this call, or "none"
    didMul,     \* history: ec_scalarmul was called in this call
    (* ---- SPEKE key pairs and Crypto_ECC_GenerateSharedSecret ---- *)
    sha,        \* Crypto_SHA256 of pw || clientGUID || serviceGUID, per password
    keys,       \* per party: its ECCPublicKey (X, Y), its ECCPrivateKey (D), the password they come from
    kpRet,      \* per party: what Crypto_ECC_GenerateSPEKEKeyPair returned, or "none"
    ssRet,      \* per party: what Crypto_ECC_GenerateSharedSecret returned, or "none"
    ssOut,      \* per party: the ECCSecretOldEncoding it was given
    args,       \* the arguments of the current call of Crypto_ECC_GenerateSPEKEKeyPair
    kp,         \* locals of Crypto_ECC_GenerateSPEKEKeyPair: pub, priv, pubTemp, privTemp, X, Y, D, status
    inr,        \* locals of GenerateSPEKEKeyPair_inner: digest, B, status
    ss,         \* locals of Crypto_ECC_GenerateSharedSecret: pk, pub, derive_rv (localSecret is secret[caller])
    kpc,        \* where the current call of one of the two is
    drew,       \* history: Crypto_GetRandomBytes was called in this call
    imported,   \* history: Import was called on an output key in this call
    (* ---- ec_REDP1 ---- *)
    rd,         \* locals of ec_REDP1: digest_i1, bytes_O3, x, alpha, beta, mu, carry, status, and *Q
    rpc,        \* where the current call of ec_REDP1 is
    (* ---- big_mpyP, big_precise_reduce, big_divide ---- *)
    bg,         \* the arguments and locals of the current call, and the bigval_t it writes
    bpc,        \* where the current call is
    (* ---- pointAdd, pointDouble, toAffine ---- *)
    pnt,        \* the Jacobian P and the affine Q of the current calls, and the points they write
    ppc,        \* which of the calls comes next
    (* ---- pointMpyP ---- *)
    mpy,        \* the arguments and locals of the current call of pointMpyP, and *tgt
    mpc,        \* where the current call of pointMpyP is
    (* ---- bigval_to_binary, binary_to_bigval, big_halveP, toJacobian, toAffine ---- *)
    app,        \* one of these functions applied: its arguments and what it wrote
    apc         \* which call comes next

rtVars == <<rules, holder, pc, op, local, it, result, ref, expect, disjoint>>

ecVars == <<priv, pub, secret, genRet, derRet, used, fn, fpc, caller, gen, der, entry, rngErr, didMul>>

spVars == <<sha, keys, kpRet, ssRet, ssOut, args, kp, inr, ss, kpc, drew, imported>>

rdVars == <<rd, rpc>>

bgVars == <<bg, bpc>>

ptVars == <<pnt, ppc>>

mpVars == <<mpy, mpc>>

apVars == <<app, apc>>

vars == <<rtVars, ecVars, spVars, rdVars, bgVars, ptVars, mpVars, apVars>>

\* what the actions of one part of the program leave alone
notRT == <<ecVars, spVars, rdVars, bgVars, ptVars, mpVars, apVars>>

notEC == <<rtVars, spVars, rdVars, bgVars, ptVars, mpVars, apVars>>

notECSP == <<rtVars, rdVars, bgVars, ptVars, mpVars, apVars>>

notRD == <<rtVars, ecVars, spVars, bgVars, ptVars, mpVars, apVars>>

notBG == <<rtVars, ecVars, spVars, rdVars, ptVars, mpVars, apVars>>

notPT == <<rtVars, ecVars, spVars, rdVars, bgVars, mpVars, apVars>>

notMP == <<rtVars, ecVars, spVars, rdVars, bgVars, ptVars, apVars>>

notAP == <<rtVars, ecVars, spVars, rdVars, bgVars, ptVars, mpVars>>

(***************************************************************************)
(*                              RULE TABLE                                 *)
(***************************************************************************)

Threads == {"t1", "t2"}

Endpoints == {"E1", "E2"}

\* BusEndpoint's operator<, the strict total order the multimap sorts its keys by.
EpRank == [e \in Endpoints |-> IF e = "E1" THEN 1 ELSE 2]

\* The endpoint a thread owns (used when the threads work on disjoint endpoints).
OwnEndpoint == [t \in Threads |-> IF t = "t1" THEN "E1" ELSE "E2"]

\* The table never holds more than MaxEntries entries in the model.
MaxEntries == 3

\* A Rule is a match predicate over a message's interface, member, path and
\* sender; an empty field of the rule matches anything.
RuleFoo == [iface |-> "org.example.Foo", member |-> "", path |-> "", sender |-> ""]

RuleBarOpen == [iface |-> "org.example.Bar", member |-> "Open", path |-> "/door", sender |-> ""]

Rules == {RuleFoo, RuleBarOpen}

MsgFoo == [iface |-> "org.example.Foo", member |-> "Ping", path |-> "/foo", sender |-> ":1.1"]

MsgBarOpen == [iface |-> "org.example.Bar", member |-> "Open", path |-> "/door", sender |-> ":1.2"]

MsgBarClose == [iface |-> "org.example.Bar", member |-> "Close", path |-> "/door", sender |-> ":1.2"]

Messages == {MsgFoo, MsgBarOpen, MsgBarClose}

\* Rule::IsMatch
IsMatch(rule, msg) ==
    /\ rule.iface = "" \/ rule.iface = msg.iface
    /\ rule.member = "" \/ rule.member = msg.member
    /\ rule.path = "" \/ rule.path = msg.path
    /\ rule.sender = "" \/ rule.sender = msg.sender

\* ---- std::multimap<BusEndpoint, Rule> on the key-ordered entry sequence ----

\* rules.end(): the position one past the last entry
End(tbl) == Len(tbl) + 1

\* rules.begin()
Begin(tbl) == 1

\* multimap::lower_bound: the first entry whose key is not less than e
LowerBound(tbl, e) ==
    CHOOSE i \in 1..End(tbl) :
        /\ i = End(tbl) \/ EpRank[tbl[i].ep] >= EpRank[e]
        /\ \A j \in 1..(i - 1) : EpRank[tbl[j].ep] < EpRank[e]

\* multimap::upper_bound: the first entry whose key is greater than e
UpperBound(tbl, e) ==
    CHOOSE i \in 1..End(tbl) :
        /\ i = End(tbl) \/ EpRank[tbl[i].ep] > EpRank[e]
        /\ \A j \in 1..(i - 1) : EpRank[tbl[j].ep] <= EpRank[e]

\* multimap::insert: a new entry goes after the entries with an equal key
Insert(tbl, e, rule) ==
    LET u == UpperBound(tbl, e)
    IN  SubSeq(tbl, 1, u - 1) \o <<[ep |-> e, rule |-> rule]>> \o SubSeq(tbl, u, Len(tbl))

\* multimap::erase(first, last): removes the entries at first .. last-1
EraseRange(tbl, first, last) ==
    SubSeq(tbl, 1, first - 1) \o SubSeq(tbl, last, Len(tbl))

\* multimap::erase(position)
Erase(tbl, i) == EraseRange(tbl, i, i + 1)

\* RuleTable::FindRulesForEndpoint: rules.find(endpoint)
FindRulesForEndpoint(tbl, e) ==
    LET l == LowerBound(tbl, e)
    IN  IF l # End(tbl) /\ tbl[l].ep = e THEN l ELSE End(tbl)

\* RuleTable::AdvanceToNextEndpoint: rules.upper_bound(endpoint)
AdvanceToNextEndpoint(tbl, e) == UpperBound(tbl, e)

\* ---- the bodies of the atomic operations, run while the lock is held ----

\* RuleTable::AddRule: insert the pair, whether or not an equal pair is stored
AddRule(tbl, e, rule) == [status |-> "ER_OK", tbl |-> Insert(tbl, e, rule)]

RECURSIVE FindRule(_, _, _, _)
\* the position of the first entry in [first, last) holding rule, 0 when none
FindRule(tbl, rule, first, last) ==
    IF first = last THEN 0
    ELSE IF tbl[first].rule = rule THEN first
    ELSE FindRule(tbl, rule, first + 1, last)

\* A faulty RemoveRule: erases every entry of the endpoint's range that holds rule.
RemoveRule_EraseEveryCopy(tbl, e, rule) ==
    LET keep == SelectSeq(tbl, LAMBDA x : ~(x.ep = e /\ x.rule = rule))
    IN  IF keep = tbl
        THEN [status |-> "ER_BUS_MATCH_RULE_NOT_FOUND", tbl |-> tbl]
        ELSE [status |-> "ER_OK", tbl |-> keep]

\* RuleTable::RemoveRule: erase the first entry of the endpoint's range equal to rule
RemoveRule(tbl, e, rule) ==
    LET i == FindRule(tbl, rule, LowerBound(tbl, e), UpperBound(tbl, e))
    IN  IF i = 0
        THEN [status |-> "ER_BUS_MATCH_RULE_NOT_FOUND", tbl |-> tbl]
        ELSE [status |-> "ER_OK", tbl |-> Erase(tbl, i)]

\* A faulty RemoveAllRules: erases from the endpoint's first entry to the table's end.
RemoveAllRules_EraseToEnd(tbl, e) ==
    [status |-> "ER_OK", tbl |-> EraseRange(tbl, LowerBound(tbl, e), End(tbl))]

\* RuleTable::RemoveAllRules: erase the endpoint's whole range
RemoveAllRules(tbl, e) ==
    [status |-> "ER_OK", tbl |-> EraseRange(tbl, LowerBound(tbl, e), UpperBound(tbl, e))]

RECURSIVE ScanMatch(_, _, _, _)
\* the loop of OkToSend: stop at the first entry of [first, last) that matches
ScanMatch(tbl, msg, first, last) ==
    IF first = last THEN FALSE
    ELSE IF IsMatch(tbl[first].rule, msg) THEN TRUE
    ELSE ScanMatch(tbl, msg, first + 1, last)

\* A faulty OkToSend: scans the whole table instead of the endpoint's range.
OkToSend_AnyEndpoint(tbl, msg, e) == ScanMatch(tbl, msg, Begin(tbl), End(tbl))

\* RuleTable::OkToSend: does a rule of the endpoint's range match the message
OkToSend(tbl, msg, e) == ScanMatch(tbl, msg, LowerBound(tbl, e), UpperBound(tbl, e))

\* What a manual traversal (Begin / AdvanceToNextEndpoint / End) visits: the
\* endpoints that have at least one rule.
EndpointsWithRules(tbl) == {tbl[i].ep : i \in 1..Len(tbl)}

\* ---- calls ----

\* placeholders for the arguments a call does not take
NoRule == [iface |-> "none", member |-> "none", path |-> "none", sender |-> "none"]

NoMsg == [iface |-> "none", member |-> "none", path |-> "none", sender |-> "none"]

NoOp == [name |-> "none", ep |-> "none", rule |-> NoRule, msg |-> NoMsg]

Mutators == {"AddRule", "RemoveRule", "RemoveAllRules"}

CallsOn(t, e) ==
    {[name |-> "AddRule", ep |-> e, rule |-> r, msg |-> NoMsg] : r \in Rules}
    \cup {[name |-> "RemoveRule", ep |-> e, rule |-> r, msg |-> NoMsg] : r \in Rules}
    \cup {[name |-> "RemoveAllRules", ep |-> e, rule |-> NoRule, msg |-> NoMsg]}
    \cup {[name |-> "OkToSend", ep |-> e, rule |-> NoRule, msg |-> m] : m \in Messages}

TraverseCall == [name |-> "Traverse", ep |-> "none", rule |-> NoRule, msg |-> NoMsg]

\* the sequential meaning of a call: the table it leaves and the value it returns
Apply(o, tbl) ==
    CASE o.name = "AddRule" ->
            LET x == AddRule(tbl, o.ep, o.rule) IN [tbl |-> x.tbl, ret |-> x.status]
      [] o.name = "RemoveRule" ->
            LET x == RemoveRule(tbl, o.ep, o.rule) IN [tbl |-> x.tbl, ret |-> x.status]
      [] o.name = "RemoveAllRules" ->
            LET x == RemoveAllRules(tbl, o.ep) IN [tbl |-> x.tbl, ret |-> x.status]
      [] o.name = "OkToSend" ->
            [tbl |-> tbl, ret |-> OkToSend(tbl, o.msg, o.ep)]
      [] o.name = "Traverse" ->
            [tbl |-> tbl, ret |-> EndpointsWithRules(tbl)]

\* entries that calls already made will still add
PendingAdds == Cardinality({t \in Threads : op[t].name = "AddRule" /\ pc[t] \in {"called", "locked", "writing"}})

InitRT ==
    /\ rules = <<>>
    /\ holder = "none"
    /\ pc = [t \in Threads |-> "idle"]
    /\ op = [t \in Threads |-> NoOp]
    /\ local = [t \in Threads |-> <<>>]
    /\ it = [t \in Threads |-> 0]
    /\ result = [t \in Threads |-> "none"]
    /\ ref = <<>>
    /\ expect = [t \in Threads |-> "none"]

\* A thread calls AddRule, RemoveRule, RemoveAllRules or OkToSend, or starts a
\* manual traversal with Lock().
Call(t) ==
    /\ pc[t] = "idle"
    /\ \E o \in UNION {CallsOn(t, e) : e \in Endpoints} \cup {TraverseCall} :
        /\ disjoint => o.name # "Traverse" /\ o.ep = OwnEndpoint[t]
        /\ o.name = "AddRule" => Len(rules) + PendingAdds < MaxEntries
        /\ op' = [op EXCEPT ![t] = o]
    /\ pc' = [pc EXCEPT ![t] = "called"]
    /\ UNCHANGED <<rules, holder, local, it, result, ref, expect, disjoint, notRT>>

\* A faulty Lock(): takes the mutex without waiting for its holder to release it.
Lock_NoWait(t) ==
    /\ pc[t] = "called"
    /\ holder' = t
    /\ pc' = [pc EXCEPT ![t] = "locked"]
    /\ ref' = Apply(op[t], ref).tbl
    /\ expect' = [expect EXCEPT ![t] = Apply(op[t], ref).ret]
    /\ UNCHANGED <<rules, op, local, it, result, disjoint, notRT>>

\* RuleTable::Lock(), lock.Lock(): blocks until the mutex is free, then takes it.
\* The reference execution runs the call at this point.
Lock(t) ==
    /\ pc[t] = "called"
    /\ holder = "none"
    /\ holder' = t
    /\ pc' = [pc EXCEPT ![t] = "locked"]
    /\ ref' = Apply(op[t], ref).tbl
    /\ expect' = [expect EXCEPT ![t] = Apply(op[t], ref).ret]
    /\ UNCHANGED <<rules, op, local, it, result, disjoint, notRT>>

\* OkToSend's body: the scan of the endpoint's range.
Query(t) ==
    /\ pc[t] = "locked"
    /\ op[t].name = "OkToSend"
    /\ result' = [result EXCEPT ![t] = OkToSend(rules, op[t].msg, op[t].ep)]
    /\ pc' = [pc EXCEPT ![t] = "unlock"]
    /\ UNCHANGED <<rules, holder, op, local, it, ref, expect, disjoint, notRT>>

\* A mutator's body, first half: it walks the multimap's tree (equal_range,
\* the insertion point).  A multimap update is not one atomic step.
Read(t) ==
    /\ pc[t] = "locked"
    /\ op[t].name \in Mutators
    /\ local' = [local EXCEPT ![t] = rules]
    /\ pc' = [pc EXCEPT ![t] = "writing"]
    /\ UNCHANGED <<rules, holder, op, it, result, ref, expect, disjoint, notRT>>

\* A mutator's body, second half: it links the tree as updated from what it read.
Write(t) ==
    /\ pc[t] = "writing"
    /\ rules' = Apply(op[t], local[t]).tbl
    /\ result' = [result EXCEPT ![t] = Apply(op[t], local[t]).ret]
    /\ pc' = [pc EXCEPT ![t] = "unlock"]
    /\ UNCHANGED <<holder, op, local, it, ref, expect, disjoint, notRT>>

\* A manual traversal, after Lock(): it = Begin().
TraverseBegin(t) ==
    /\ pc[t] = "locked"
    /\ op[t].name = "Traverse"
    /\ it' = [it EXCEPT ![t] = Begin(rules)]
    /\ local' = [local EXCEPT ![t] = rules]
    /\ result' = [result EXCEPT ![t] = {}]
    /\ pc' = [pc EXCEPT ![t] = "iterating"]
    /\ UNCHANGED <<rules, holder, op, ref, expect, disjoint, notRT>>

\* A manual traversal: while it != End(), visit it->first and continue with
\* AdvanceToNextEndpoint(it->first).  An iterator left past the end by a
\* concurrent erase ends the walk.
TraverseStep(t) ==
    /\ pc[t] = "iterating"
    /\ IF it[t] >= End(rules)
       THEN /\ pc' = [pc EXCEPT ![t] = "unlock"]
            /\ UNCHANGED <<it, result>>
       ELSE /\ result' = [result EXCEPT ![t] = @ \cup {rules[it[t]].ep}]
            /\ it' = [it EXCEPT ![t] = AdvanceToNextEndpoint(rules, rules[it[t]].ep)]
            /\ UNCHANGED pc
    /\ UNCHANGED <<rules, holder, op, local, ref, expect, disjoint, notRT>>

\* RuleTable::Unlock(), lock.Unlock(), and the return to the caller.
Unlock(t) ==
    /\ pc[t] = "unlock"
    /\ holder' = IF holder = t THEN "none" ELSE holder
    /\ pc' = [pc EXCEPT ![t] = "idle"]
    /\ op' = [op EXCEPT ![t] = NoOp]
    /\ local' = [local EXCEPT ![t] = <<>>]
    /\ it' = [it EXCEPT ![t] = 0]
    /\ result' = [result EXCEPT ![t] = "none"]
    /\ expect' = [expect EXCEPT ![t] = "none"]
    /\ UNCHANGED <<rules, ref, disjoint, notRT>>

NextRT ==
    \E t \in Threads :
        \/ Call(t)
        \/ Lock(t)
        \/ Query(t)
        \/ Read(t)
        \/ Write(t)
        \/ TraverseBegin(t)
        \/ TraverseStep(t)
        \/ Unlock(t)

(***************************************************************************)
(*                     ECDH: the curve and its library                     *)
(*                                                                         *)
(* The code works on NIST P-256.  The model keeps the code and scales the  *)
(* curve down: a Weierstrass curve y^2 = x^3 + a*x + b with a = -3 over a  *)
(* prime field with p = 3 (mod 4), whose group has prime order and         *)
(* cofactor 1, as P-256 has.  A digit256_t is a DigitBits-bit unsigned     *)
(* value (the curve order is below 2^DigitBits and not a power of two, so  *)
(* random candidates can fall outside the range); a bigval_t is a signed   *)
(* value with room above a digit256_t.                                     *)
(***************************************************************************)

\* the width of a digit256_t in the model
DigitBits == 4

DigitRange == 2 ^ DigitBits

Digits == 0..(DigitRange - 1)

\* ec_getcurve(&curve, NISTP256r1): the curve parameters, scaled down
Curve == [p |-> 11, a |-> 8, b |-> 10, order |-> 7, gx |-> 2, gy |-> 1]

\* an ecpoint_t is a pair of digit256_t; the identity is (0, 0)
ZeroPoint == [x |-> 0, y |-> 0]

\* the content of a local that has not been written yet
Indeterminate == -1

IndeterminatePoint == [x |-> Indeterminate, y |-> Indeterminate]

\* ec_get_generator
ec_get_generator == [x |-> Curve.gx, y |-> Curve.gy]

\* ec_is_infinity
ec_is_infinity(P) == P.x = 0 /\ P.y = 0

\* ec_oncurve: both coordinates are field elements and satisfy the curve equation
ec_oncurve(P) ==
    /\ P.x \in 0..(Curve.p - 1)
    /\ P.y \in 0..(Curve.p - 1)
    /\ (P.y * P.y) % Curve.p = (P.x * P.x * P.x + Curve.a * P.x + Curve.b) % Curve.p

\* ecpoint_validation: the point is not the identity and is on the curve
ecpoint_validation(P) == ~ec_is_infinity(P) /\ ec_oncurve(P)

\* validate_256(a, modulus): a is in [0, modulus - 1]
validate_256(a, modulus) == a >= 0 /\ a < modulus

\* the inverse of a non-zero field element
FieldInv(a) == CHOOSE x \in 1..(Curve.p - 1) : (a * x) % Curve.p = 1

\* the group law on affine points, (0, 0) being the identity
EcAdd(P, Q) ==
    IF ec_is_infinity(P) THEN Q
    ELSE IF ec_is_infinity(Q) THEN P
    ELSE IF P.x = Q.x /\ (P.y + Q.y) % Curve.p = 0 THEN ZeroPoint
    ELSE LET lam == IF P.x = Q.x
                    THEN ((3 * P.x * P.x + Curve.a) * FieldInv((2 * P.y) % Curve.p)) % Curve.p
                    ELSE ((Q.y - P.y) * FieldInv((Q.x - P.x) % Curve.p)) % Curve.p
             x3 == (lam * lam - P.x - Q.x) % Curve.p
         IN  [x |-> x3, y |-> (lam * (P.x - x3) - P.y) % Curve.p]

RECURSIVE EcMul(_, _)
\* k * P, as P added to itself k times
EcMul(k, P) == IF k = 0 THEN ZeroPoint ELSE EcAdd(P, EcMul(k - 1, P))

\* ec_scalarmul(P, k, Q, curve): the (status, Q) pairs a call can produce.
\* For 1 <= k < order it is k * P.  The code calls the behaviour for other
\* k "unspecified, but safe": the library either computes the multiple
\* (the identity for k = 0 or k = order) or refuses with an error and leaves
\* Q zeroed or not written.
ec_scalarmul(P, k) ==
    IF k >= 1 /\ k < Curve.order
    THEN {[status |-> "ER_OK", Q |-> EcMul(k, P)]}
    ELSE {[status |-> "ER_OK", Q |-> EcMul(k % Curve.order, P)],
          [status |-> "ER_CRYPTO_ILLEGAL_PARAMETERS", Q |-> ZeroPoint],
          [status |-> "ER_CRYPTO_ILLEGAL_PARAMETERS", Q |-> IndeterminatePoint]}

\* the statuses with which Crypto_GetRandomBytes can fail
RngErrors == {"ER_CRYPTO_ERROR", "ER_OS_ERROR"}

\* bigval_to_digit256: fails on a negative source, else copies the low words
bigval_to_digit256(src) ==
    IF src < 0 THEN [ok |-> FALSE, dst |-> Indeterminate]
    ELSE [ok |-> TRUE, dst |-> src % DigitRange]

\* digit256_to_bigval: copies the words and clears the top word
digit256_to_bigval(src) == src

(***************************************************************************)
(*                 ECDH: ECDH_generate and ECDH_derive_pt                  *)
(***************************************************************************)

Parties == {"alice", "bob"}

Peer(p) == IF p = "alice" THEN "bob" ELSE "alice"

\* what a caller's buffers hold before anything was written to them
NoScalar == Indeterminate

NoPoint == [x |-> Indeterminate, y |-> Indeterminate, infinity |-> FALSE]

\* coordinates a peer may send: negative, zero, off the curve, the generator's,
\* the generator's plus p (not a field element), and the generator's with a
\* bit set above the digit256_t width
SentCoords == {-1, 0, 1, Curve.gx, Curve.gx + Curve.p, DigitRange + Curve.gx}

SentPoints == [x : SentCoords, y : SentCoords, infinity : BOOLEAN]

\* private keys a caller may have imported instead of generating them
ImportedScalars == {-1, 0, Curve.order, DigitRange + 1}

GenIdle == [r |-> Indeterminate, Q |-> IndeterminatePoint, status |-> "none"]

DerIdle == [ourPrivate |-> Indeterminate, theirPublic |-> IndeterminatePoint,
            sharedSecret |-> IndeterminatePoint, status |-> FALSE, ajstatus |-> "none"]

NoArgs == [k |-> NoScalar, Q |-> NoPoint]

InitEC ==
    /\ priv = [p \in Parties |-> NoScalar]
    /\ pub = [p \in Parties |-> NoPoint]
    /\ secret = [p \in Parties |-> NoPoint]
    /\ genRet = [p \in Parties |-> "none"]
    /\ derRet = [p \in Parties |-> "none"]
    /\ used = [p \in Parties |-> NoArgs]
    /\ fn = "none"
    /\ fpc = "none"
    /\ caller = "none"
    /\ gen = GenIdle
    /\ der = DerIdle
    /\ entry = NoArgs
    /\ rngErr = "none"
    /\ didMul = FALSE

\* ---- ECDH_generate(P1, k) ----

\* A party without a key pair calls ECDH_generate(&pub, &priv).
CallGenerate(p) ==
    /\ fn = "none"
    /\ genRet[p] # "ER_OK"
    /\ derRet[p] = "none"
    /\ fn' = "generate"
    /\ fpc' = "getcurve"
    /\ caller' = p
    /\ gen' = GenIdle
    /\ entry' = [k |-> priv[p], Q |-> pub[p]]
    /\ rngErr' = "none"
    /\ didMul' = FALSE
    /\ UNCHANGED <<priv, pub, secret, genRet, derRet, used, der, notEC>>

\* status = ec_getcurve(&curve, NISTP256r1); if (status != ER_OK) goto Exit;
GenGetCurve ==
    /\ fn = "generate" /\ fpc = "getcurve"
    /\ \E st \in {"ER_OK", "ER_FAIL"} :
        /\ gen' = [gen EXCEPT !.status = st]
        /\ fpc' = IF st = "ER_OK" THEN "draw" ELSE "exit"
    /\ UNCHANGED <<priv, pub, secret, genRet, derRet, used, fn, caller, der, entry, rngErr, didMul, notEC>>

\* A faulty loop: a failed draw leaves the loop instead of the function.
GenDraw_BreakOnError ==
    /\ fn = "generate" /\ fpc = "draw"
    /\ \/ \E err \in RngErrors :
            /\ gen' = [gen EXCEPT !.status = err]
            /\ rngErr' = err
            /\ fpc' = "mul"
       \/ \E bytes \in Digits :
            /\ gen' = [gen EXCEPT !.r = bytes, !.status = "ER_OK"]
            /\ fpc' = IF validate_256(bytes, Curve.order) THEN "mul" ELSE "draw"
            /\ UNCHANGED rngErr
    /\ UNCHANGED <<priv, pub, secret, genRet, derRet, used, fn, caller, der, entry, didMul, notEC>>

\* do { status = Crypto_GetRandomBytes(r); if (status != ER_OK) goto Exit; }
\* while (!validate_256(r, curve.order));
GenDraw ==
    /\ fn = "generate" /\ fpc = "draw"
    /\ \/ \E err \in RngErrors :
            /\ gen' = [gen EXCEPT !.status = err]
            /\ rngErr' = err
            /\ fpc' = "exit"
       \/ \E bytes \in Digits :
            /\ gen' = [gen EXCEPT !.r = bytes, !.status = "ER_OK"]
            /\ fpc' = IF validate_256(bytes, Curve.order) THEN "mul" ELSE "draw"
            /\ UNCHANGED rngErr
    /\ UNCHANGED <<priv, pub, secret, genRet, derRet, used, fn, caller, der, entry, didMul, notEC>>

\* ec_get_generator(&g, &curve); status = ec_scalarmul(&g, r, &Q, &curve);
GenScalarMul ==
    /\ fn = "generate" /\ fpc = "mul"
    /\ \E out \in ec_scalarmul(ec_get_generator, gen.r) :
        gen' = [gen EXCEPT !.status = out.status, !.Q = out.Q]
    /\ didMul' = TRUE
    /\ fpc' = "convert"
    /\ UNCHANGED <<priv, pub, secret, genRet, derRet, used, fn, caller, der, entry, rngErr, notEC>>

\* digit256_to_bigval(r, k); digit256_to_bigval(Q.x, &P1->x);
\* digit256_to_bigval(Q.y, &P1->y); P1->infinity = false;
\* (the status of ec_scalarmul is not looked at before this)
GenConvert ==
    /\ fn = "generate" /\ fpc = "convert"
    /\ priv' = [priv EXCEPT ![caller] = digit256_to_bigval(gen.r)]
    /\ pub' = [pub EXCEPT ![caller] = [x |-> digit256_to_bigval(gen.Q.x),
                                       y |-> digit256_to_bigval(gen.Q.y),
                                       infinity |-> FALSE]]
    /\ fpc' = "exit"
    /\ UNCHANGED <<secret, genRet, derRet, used, fn, caller, gen, der, entry, rngErr, didMul, notEC>>

\* Exit: fpzero_p256(r); fpzero_p256(Q.x); fpzero_p256(Q.y); return status;
GenExit ==
    /\ fn = "generate" /\ fpc = "exit"
    /\ gen' = [gen EXCEPT !.r = 0, !.Q = ZeroPoint]
    /\ genRet' = [genRet EXCEPT ![caller] = gen.status]
    /\ fn' = "none"
    /\ fpc' = "none"
    /\ UNCHANGED <<priv, pub, secret, derRet, used, caller, der, entry, rngErr, didMul, notEC>>

\* ---- ECDH_derive_pt(tgt, k, Q) ----

\* the value of a bool as the caller records it
BoolName(b) == IF b THEN "true" ELSE "false"

\* A party that has its key pair and has received its peer's public point
\* calls ECDH_derive_pt(&secret, &priv, &peer's pub).
CallDerive(p) ==
    /\ fn = "none"
    /\ genRet[p] = "ER_OK" /\ genRet[Peer(p)] = "ER_OK"
    /\ derRet[p] = "none"
    /\ used' = [used EXCEPT ![p] = [k |-> priv[p], Q |-> pub[Peer(p)]]]
    /\ fn' = "derive"
    /\ fpc' = "getcurve"
    /\ caller' = p
    /\ der' = DerIdle
    /\ rngErr' = "none"
    /\ didMul' = FALSE
    /\ UNCHANGED <<priv, pub, secret, genRet, derRet, gen, entry, notEC>>

\* ECDH_derive_pt(&secret, k, Q) called with any private key (generated or
\* imported) and any received point, as Crypto_ECC_GenerateSharedSecret does
\* with the keys it is handed.
CallDeriveAny ==
    /\ fn = "none"
    /\ \E k \in ImportedScalars \cup {1, Curve.order - 1}, Q \in SentPoints :
        used' = [used EXCEPT !["alice"] = [k |-> k, Q |-> Q]]
    /\ derRet' = [derRet EXCEPT !["alice"] = "none"]
    /\ fn' = "derive"
    /\ fpc' = "getcurve"
    /\ caller' = "alice"
    /\ der' = DerIdle
    /\ rngErr' = "none"
    /\ didMul' = FALSE
    /\ UNCHANGED <<priv, pub, secret, genRet, gen, entry, notEC>>

\* A party whose ECDH_generate has returned calls ECDH_derive_pt(&secret,
\* &priv, Q) once, with the point Q it received.
CallDeriveReceived(p) ==
    /\ fn = "none"
    /\ genRet[p] # "none"
    /\ derRet[p] = "none"
    /\ \E Q \in SentPoints :
        used' = [used EXCEPT ![p] = [k |-> priv[p], Q |-> Q]]
    /\ fn' = "derive"
    /\ fpc' = "getcurve"
    /\ caller' = p
    /\ der' = DerIdle
    /\ rngErr' = "none"
    /\ didMul' = FALSE
    /\ UNCHANGED <<priv, pub, secret, genRet, derRet, gen, entry, notEC>>

\* ajstatus = ec_getcurve(&curve, NISTP256r1);
\* if (ajstatus != ER_OK) { status = false; goto Exit; }
DerGetCurve ==
    /\ fn = "derive" /\ fpc = "getcurve"
    /\ \E st \in {"ER_OK", "ER_FAIL"} :
        /\ der' = [der EXCEPT !.ajstatus = st, !.status = IF st = "ER_OK" THEN @ ELSE FALSE]
        /\ fpc' = IF st = "ER_OK" THEN "convert" ELSE "exit"
    /\ UNCHANGED <<priv, pub, secret, genRet, derRet, used, fn, caller, gen, entry, rngErr, didMul, notEC>>

\* status = bigval_to_digit256(k, ourPrivate);
\* status = status && bigval_to_digit256(&Q->x, theirPublic.x);
\* status = status && bigval_to_digit256(&Q->y, theirPublic.y);
\* if (!status) goto Exit;
DerConvert ==
    /\ fn = "derive" /\ fpc = "convert"
    /\ LET ck == bigval_to_digit256(used[caller].k)
           cx == bigval_to_digit256(used[caller].Q.x)
           cy == bigval_to_digit256(used[caller].Q.y)
           s1 == ck.ok
           s2 == s1 /\ cx.ok
           s3 == s2 /\ cy.ok
       IN  /\ der' = [der EXCEPT
                        !.ourPrivate = ck.dst,
                        !.theirPublic = [x |-> IF s1 THEN cx.dst ELSE Indeterminate,
                                         y |-> IF s2 THEN cy.dst ELSE Indeterminate],
                        !.status = s3]
           /\ fpc' = IF s3 THEN "validate" ELSE "exit"
    /\ UNCHANGED <<priv, pub, secret, genRet, derRet, used, fn, caller, gen, entry, rngErr, didMul, notEC>>

\* A faulty check: a point that fails validation is only noted, not refused.
DerValidate_NoExit ==
    /\ fn = "derive" /\ fpc = "validate"
    /\ der' = [der EXCEPT !.status = ecpoint_validation(der.theirPublic)]
    /\ fpc' = "mul"
    /\ UNCHANGED <<priv, pub, secret, genRet, derRet, used, fn, caller, gen, entry, rngErr, didMul, notEC>>

\* if (!ecpoint_validation(&theirPublic, &curve)) { status = false; goto Exit; }
DerValidate ==
    /\ fn = "derive" /\ fpc = "validate"
    /\ IF ecpoint_validation(der.theirPublic)
       THEN /\ fpc' = "mul"
            /\ UNCHANGED der
       ELSE /\ der' = [der EXCEPT !.status = FALSE]
            /\ fpc' = "exit"
    /\ UNCHANGED <<priv, pub, secret, genRet, derRet, used, fn, caller, gen, entry, rngErr, didMul, notEC>>

\* A faulty multiplication: the generator is multiplied, not the peer's point.
DerScalarMul_ByGenerator ==
    /\ fn = "derive" /\ fpc = "mul"
    /\ \E out \in ec_scalarmul(ec_get_generator, der.ourPrivate) :
        der' = [der EXCEPT !.ajstatus = out.status, !.sharedSecret = out.Q]
    /\ didMul' = TRUE
    /\ fpc' = "check"
    /\ UNCHANGED <<priv, pub, secret, genRet, derRet, used, fn, caller, gen, entry, rngErr, notEC>>

\* ajstatus = ec_scalarmul(&theirPublic, ourPrivate, &sharedSecret, &curve);
DerScalarMul ==
    /\ fn = "derive" /\ fpc = "mul"
    /\ \E out \in ec_scalarmul(der.theirPublic, der.ourPrivate) :
        der' = [der EXCEPT !.ajstatus = out.status, !.sharedSecret = out.Q]
    /\ didMul' = TRUE
    /\ fpc' = "check"
    /\ UNCHANGED <<priv, pub, secret, genRet, derRet, used, fn, caller, gen, entry, rngErr, notEC>>

\* A faulty check: the shared point is not tested with ec_oncurve.
DerCheck_StatusOnly ==
    /\ fn = "derive" /\ fpc = "check"
    /\ der' = [der EXCEPT !.status = (der.ajstatus = "ER_OK")]
    /\ secret' = [secret EXCEPT ![caller] =
                    [x |-> digit256_to_bigval(der.sharedSecret.x),
                     y |-> digit256_to_bigval(der.sharedSecret.y),
                     infinity |-> ec_is_infinity(der.sharedSecret)]]
    /\ fpc' = "exit"
    /\ UNCHANGED <<priv, pub, genRet, derRet, used, fn, caller, gen, entry, rngErr, didMul, notEC>>

\* status = ec_oncurve(&sharedSecret, &curve); status &= (ER_OK == ajstatus);
\* digit256_to_bigval(sharedSecret.x, &tgt->x); digit256_to_bigval(sharedSecret.y, &tgt->y);
\* tgt->infinity = ec_is_infinity(&sharedSecret, &curve);
DerCheck ==
    /\ fn = "derive" /\ fpc = "check"
    /\ der' = [der EXCEPT !.status = ec_oncurve(der.sharedSecret) /\ (der.ajstatus = "ER_OK")]
    /\ secret' = [secret EXCEPT ![caller] =
                    [x |-> digit256_to_bigval(der.sharedSecret.x),
                     y |-> digit256_to_bigval(der.sharedSecret.y),
                     infinity |-> ec_is_infinity(der.sharedSecret)]]
    /\ fpc' = "exit"
    /\ UNCHANGED <<priv, pub, genRet, derRet, used, fn, caller, gen, entry, rngErr, didMul, notEC>>

\* A faulty exit: the shared point is left in the local.
DerExit_KeepSecret ==
    /\ fn = "derive" /\ fpc = "exit"
    /\ der' = [der EXCEPT !.ourPrivate = 0]
    /\ derRet' = [derRet EXCEPT ![caller] = BoolName(der.status)]
    /\ fn' = "none"
    /\ fpc' = "none"
    /\ UNCHANGED <<priv, pub, secret, genRet, used, caller, gen, entry, rngErr, didMul, notEC>>

\* Exit: fpzero_p256(sharedSecret.x); fpzero_p256(sharedSecret.y);
\* fpzero_p256(ourPrivate); return status;
DerExit ==
    /\ fn = "derive" /\ fpc = "exit"
    /\ der' = [der EXCEPT !.sharedSecret = ZeroPoint, !.ourPrivate = 0]
    /\ derRet' = [derRet EXCEPT ![caller] = BoolName(der.status)]
    /\ fn' = "none"
    /\ fpc' = "none"
    /\ UNCHANGED <<priv, pub, secret, genRet, used, caller, gen, entry, rngErr, didMul, notEC>>

NextEC ==
    \/ \E p \in Parties : CallGenerate(p)
    \/ GenGetCurve
    \/ GenDraw
    \/ GenScalarMul
    \/ GenConvert
    \/ GenExit
    \/ \E p \in Parties : CallDerive(p)
    \/ DerGetCurve
    \/ DerConvert
    \/ DerValidate
    \/ DerScalarMul
    \/ DerCheck
    \/ DerExit

NextDerive ==
    \/ CallDeriveAny
    \/ DerGetCurve
    \/ DerConvert
    \/ DerValidate
    \/ DerScalarMul
    \/ DerCheck
    \/ DerExit

\* a party generates its key pair and then calls ECDH_derive_pt with its
\* private key on the point it received
NextExits ==
    \/ CallGenerate("alice")
    \/ GenGetCurve
    \/ GenDraw
    \/ GenScalarMul
    \/ GenConvert
    \/ GenExit
    \/ CallDeriveReceived("alice")
    \/ DerGetCurve
    \/ DerConvert
    \/ DerValidate
    \/ DerScalarMul
    \/ DerCheck
    \/ DerExit

(***************************************************************************)
(*        SPEKE key pairs and Crypto_ECC_GenerateSharedSecret              *)
(*                                                                         *)
(* Bytes, words and digests are scaled down with the curve: a uint8_t has  *)
(* ByteBits bits, a uint32_t has WordBytes bytes, a bigval_t has BigLen    *)
(* words, of which BigLen - 1 hold a digit256_t.                           *)
(***************************************************************************)

\* the width of a uint8_t in the model
ByteBits == 1

ByteRange == 2 ^ ByteBits

\* sizeof(uint32_t)
WordBytes == 4

\* BIGLEN, the number of uint32_t words of a bigval_t
BigLen == 2

\* 4 * BIGLEN, the number of bytes of a bigval_t
BigBytes == WordBytes * BigLen

BigRange == ByteRange ^ BigBytes

\* GetCoordinateSize() and GetDSize(): sizeof(digit256_t)
KeyBytes == (BigLen - 1) * WordBytes

\* Crypto_SHA256::DIGEST_SIZE
DigestLen == 4

RECURSIVE BytesValue(_)
\* the unsigned value of a big-endian byte array
BytesValue(src) ==
    IF src = <<>> THEN 0
    ELSE BytesValue(SubSeq(src, 1, Len(src) - 1)) * ByteRange + src[Len(src)]

\* binary_to_bigval: the low 4 * BIGLEN bytes of a big-endian array, as the
\* two's-complement value of the bigval_t they fill
binary_to_bigval(src) ==
    LET low == IF Len(src) > BigBytes
               THEN SubSeq(src, Len(src) - BigBytes + 1, Len(src))
               ELSE src
        v == BytesValue(low)
    IN  IF v >= BigRange \div 2 THEN v - BigRange ELSE v

\* bigval_to_binary with highbytes 0 whatever the sign of src
bigval_to_binary_ZeroExtended(src, tgtlen) ==
    [j \in 1..tgtlen |->
        LET i == tgtlen - j
        IN  IF i < BigBytes
            THEN (((src + BigRange) % BigRange) \div (ByteRange ^ i)) % ByteRange
            ELSE 0]

\* bigval_to_binary: tgtlen bytes, most significant first; high bytes are
\* dropped when tgtlen is small and sign-extended when it is large
bigval_to_binary(src, tgtlen) ==
    [j \in 1..tgtlen |->
        LET i == tgtlen - j
        IN  IF i < BigBytes
            THEN (((src + BigRange) % BigRange) \div (ByteRange ^ i)) % ByteRange
            ELSE IF src < 0 THEN ByteRange - 1 ELSE 0]

\* U32ArrayToU8BeArray on a bigval_t: its words in memory order, each as
\* WordBytes bytes most significant first
U32ArrayToU8BeArray(v) ==
    LET u == (v + BigRange) % BigRange
        WordRange == ByteRange ^ WordBytes
    IN  [j \in 1..BigBytes |->
            LET w == (j - 1) \div WordBytes
                b == WordBytes - 1 - ((j - 1) % WordBytes)
            IN  ((u \div (WordRange ^ w)) \div (ByteRange ^ b)) % ByteRange]

\* ClearMemory(&v, n) on a bigval_t: its first n bytes in memory, which are
\* its n low bytes, are zeroed
ClearMemory(v, n) ==
    LET u == (v + BigRange) % BigRange
        kept == u - (u % (ByteRange ^ n))
    IN  IF kept >= BigRange \div 2 THEN kept - BigRange ELSE kept

\* ClearMemory(D, n) on a byte array of n bytes
ClearBytes(n) == [j \in 1..n |-> 0]

\* fpimport_p256(bytes, x, temps, true): the field element a big-endian
\* byte array stands for
fpimport_p256(bytes) == BytesValue(bytes) % Curve.p

\* ec_add(R, Q1, curve): R = R + Q1; nothing is known of it on an unwritten R
ec_add(R, Q1) == IF R = IndeterminatePoint THEN IndeterminatePoint ELSE EcAdd(R, Q1)

\* ec_get_REDP_basepoints: the two precomputed points
REDP_Q1 == EcMul(2, ec_get_generator)

REDP_Q2 == EcMul(3, ec_get_generator)

\* ec_REDP2(pi, Q1, Q2, R, curve): the (status, R) pairs a call can produce
ec_REDP2(pi, Q1, Q2) ==
    LET t == fpimport_p256(pi)
    IN  {[status |-> out.status, R |-> ec_add(out.Q, Q1)] : out \in ec_scalarmul(Q2, t)}

Passwords == {"pw1", "pw2"}

\* digests a password can hash to: one that gives a base point of order
\* `order', one that gives the identity, one whose scalar is out of range
SpekeDigests == {<<0, 0, 0, 1>>, <<0, 1, 0, 0>>, <<0, 0, 0, 0>>}

\* the arguments of a call of Crypto_ECC_GenerateSPEKEKeyPair
KeyPairArgs ==
    [pw : Passwords \cup {"NULL"}, pwLen : {0, 1},
     publicKey : {"NULL", "key"}, privateKey : {"NULL", "key"}]

\* no password was hashed
NoSha == [w \in Passwords |-> <<>>]

NoKeyPairArgs == [pw |-> "NULL", pwLen |-> 0, publicKey |-> "NULL", privateKey |-> "NULL"]

NoKeys == [X |-> <<>>, Y |-> <<>>, D |-> <<>>, pw |-> "NULL"]

KpIdle == [pub |-> IndeterminatePoint, priv |-> Indeterminate,
           pubTemp |-> IndeterminatePoint, privTemp |-> Indeterminate,
           X |-> <<>>, Y |-> <<>>, D |-> <<>>, status |-> "none"]

InrIdle == [digest |-> <<>>, B |-> IndeterminatePoint, status |-> "none"]

SsIdle == [pk |-> Indeterminate, pub |-> NoPoint, derive_rv |-> "none"]

InitSP ==
    /\ keys = [p \in Parties |-> NoKeys]
    /\ kpRet = [p \in Parties |-> "none"]
    /\ ssRet = [p \in Parties |-> "none"]
    /\ ssOut = [p \in Parties |-> <<>>]
    /\ args = NoKeyPairArgs
    /\ kp = KpIdle
    /\ inr = InrIdle
    /\ ss = SsIdle
    /\ kpc = "none"
    /\ drew = FALSE
    /\ imported = FALSE

\* the variables of ECDH_generate and ECDH_derive_pt other than fn and caller
ecFrame == <<priv, pub, secret, genRet, derRet, used, fpc, gen, der, entry, rngErr, didMul>>

\* ---- Crypto_ECC_GenerateSPEKEKeyPair(publicKey, privateKey, pw, pwLen, clientGUID, serviceGUID) ----

\* A party calls Crypto_ECC_GenerateSPEKEKeyPair, once.
KpCall(p) ==
    /\ fn = "none" /\ kpc = "none"
    /\ kpRet[p] = "none"
    /\ \E a \in KeyPairArgs : args' = a
    /\ fn' = "keypair"
    /\ kpc' = "nullcheck"
    /\ caller' = p
    /\ kp' = KpIdle
    /\ inr' = InrIdle
    /\ drew' = FALSE
    /\ imported' = FALSE
    /\ UNCHANGED <<sha, keys, kpRet, ssRet, ssOut, ss, ecFrame, notECSP>>

\* if (publicKey == NULL || privateKey == NULL) return ER_CRYPTO_ILLEGAL_PARAMETERS;
KpNullCheck ==
    /\ fn = "keypair" /\ kpc = "nullcheck"
    /\ IF args.publicKey = "NULL" \/ args.privateKey = "NULL"
       THEN /\ kp' = [kp EXCEPT !.status = "ER_CRYPTO_ILLEGAL_PARAMETERS"]
            /\ kpRet' = [kpRet EXCEPT ![caller] = "ER_CRYPTO_ILLEGAL_PARAMETERS"]
            /\ fn' = "none"
            /\ kpc' = "none"
       ELSE /\ kpc' = "inner"
            /\ UNCHANGED <<kp, kpRet, fn>>
    /\ UNCHANGED <<sha, keys, ssRet, ssOut, args, inr, ss, drew, imported, caller, ecFrame, notECSP>>

\* A faulty check: an empty password is accepted.
InnerCheck_PointerOnly ==
    /\ fn = "keypair" /\ kpc = "inner"
    /\ IF args.pw = "NULL"
       THEN /\ inr' = [inr EXCEPT !.status = "ER_CRYPTO_ILLEGAL_PARAMETERS"]
            /\ kp' = [kp EXCEPT !.status = "ER_CRYPTO_ILLEGAL_PARAMETERS"]
            /\ kpc' = "afterinner"
       ELSE /\ kpc' = "getcurve"
            /\ UNCHANGED <<inr, kp>>
    /\ UNCHANGED <<sha, keys, kpRet, ssRet, ssOut, args, ss, drew, imported, ecVars, notECSP>>

\* GenerateSPEKEKeyPair_inner:
\* if (pw == NULL || pwLen == 0) return ER_CRYPTO_ILLEGAL_PARAMETERS;
InnerCheck ==
    /\ fn = "keypair" /\ kpc = "inner"
    /\ IF args.pw = "NULL" \/ args.pwLen = 0
       THEN /\ inr' = [inr EXCEPT !.status = "ER_CRYPTO_ILLEGAL_PARAMETERS"]
            /\ kp' = [kp EXCEPT !.status = "ER_CRYPTO_ILLEGAL_PARAMETERS"]
            /\ kpc' = "afterinner"
       ELSE /\ kpc' = "getcurve"
            /\ UNCHANGED <<inr, kp>>
    /\ UNCHANGED <<sha, keys, kpRet, ssRet, ssOut, args, ss, drew, imported, ecVars, notECSP>>

\* status = ec_getcurve(&curve, NISTP256r1); if (status != ER_OK) goto Exit;
InnerGetCurve ==
    /\ fn = "keypair" /\ kpc = "getcurve"
    /\ \E st \in {"ER_OK", "ER_FAIL"} :
        /\ inr' = [inr EXCEPT !.status = st]
        /\ kpc' = IF st = "ER_OK" THEN "hash" ELSE "exit"
    /\ UNCHANGED <<sha, keys, kpRet, ssRet, ssOut, args, kp, ss, drew, imported, ecVars, notECSP>>

\* A faulty hash: the digest does not depend on what was hashed.
InnerHash_AnyDigest ==
    /\ fn = "keypair" /\ kpc = "hash"
    /\ \/ \E d \in SpekeDigests :
            /\ inr' = [inr EXCEPT !.status = "ER_OK", !.digest = d]
            /\ kpc' = "redp2"
       \/ /\ inr' = [inr EXCEPT !.status = "ER_CRYPTO_ERROR"]
          /\ kpc' = "exit"
    /\ UNCHANGED <<sha, keys, kpRet, ssRet, ssOut, args, kp, ss, drew, imported, ecVars, notECSP>>

\* hash.Init(); hash.Update(pw, pwLen); hash.Update(clientGUID); hash.Update(serviceGUID);
\* hash.GetDigest(digest); each with if (status != ER_OK) goto Exit;
InnerHash ==
    /\ fn = "keypair" /\ kpc = "hash"
    /\ \/ /\ inr' = [inr EXCEPT !.status = "ER_OK", !.digest = sha[args.pw]]
          /\ kpc' = "redp2"
       \/ /\ inr' = [inr EXCEPT !.status = "ER_CRYPTO_ERROR"]
          /\ kpc' = "exit"
    /\ UNCHANGED <<sha, keys, kpRet, ssRet, ssOut, args, kp, ss, drew, imported, ecVars, notECSP>>

\* ec_get_REDP_basepoints(&Q1, &Q2, curve.curveid);
\* status = ec_REDP2(digest, &Q1, &Q2, &B, &curve); if (status != ER_OK) goto Exit;
InnerREDP2 ==
    /\ fn = "keypair" /\ kpc = "redp2"
    /\ \E out \in ec_REDP2(inr.digest, REDP_Q1, REDP_Q2) :
        /\ inr' = [inr EXCEPT !.status = out.status, !.B = out.R]
        /\ kpc' = IF out.status = "ER_OK" THEN "draw" ELSE "exit"
    /\ UNCHANGED <<sha, keys, kpRet, ssRet, ssOut, args, kp, ss, drew, imported, ecVars, notECSP>>

\* do { status = Crypto_GetRandomBytes(privateKey); if (status != ER_OK) goto Exit; }
\* while (!validate_256(privateKey, curve.order));
InnerDraw ==
    /\ fn = "keypair" /\ kpc = "draw"
    /\ \/ \E err \in RngErrors :
            /\ inr' = [inr EXCEPT !.status = err]
            /\ kpc' = "exit"
            /\ UNCHANGED kp
       \/ \E bytes \in Digits :
            /\ inr' = [inr EXCEPT !.status = "ER_OK"]
            /\ kp' = [kp EXCEPT !.priv = bytes]
            /\ kpc' = IF validate_256(bytes, Curve.order) THEN "mul" ELSE "draw"
    /\ drew' = TRUE
    /\ UNCHANGED <<sha, keys, kpRet, ssRet, ssOut, args, ss, imported, ecVars, notECSP>>

\* status = ec_scalarmul(&B, privateKey, publicKey, &curve);
InnerScalarMul ==
    /\ fn = "keypair" /\ kpc = "mul"
    /\ \E out \in ec_scalarmul(inr.B, kp.priv) :
        /\ inr' = [inr EXCEPT !.status = out.status]
        /\ kp' = [kp EXCEPT !.pub = out.Q]
    /\ kpc' = "exit"
    /\ UNCHANGED <<sha, keys, kpRet, ssRet, ssOut, args, ss, drew, imported, ecVars, notECSP>>

\* Exit: fpzero_p256(B.x); fpzero_p256(B.y); ClearMemory(temps, ...);
\* ClearMemory(digest, Crypto_SHA256::DIGEST_SIZE); return status;
InnerExit ==
    /\ fn = "keypair" /\ kpc = "exit"
    /\ inr' = [inr EXCEPT !.B = ZeroPoint, !.digest = ClearBytes(DigestLen)]
    /\ kp' = [kp EXCEPT !.status = inr.status]
    /\ kpc' = "afterinner"
    /\ UNCHANGED <<sha, keys, kpRet, ssRet, ssOut, args, ss, drew, imported, ecVars, notECSP>>

\* status = GenerateSPEKEKeyPair_inner(...); if (status != ER_OK) return status;
KpAfterInner ==
    /\ fn = "keypair" /\ kpc = "afterinner"
    /\ IF kp.status # "ER_OK"
       THEN /\ kpRet' = [kpRet EXCEPT ![caller] = kp.status]
            /\ fn' = "none"
            /\ kpc' = "none"
       ELSE /\ kpc' = "convert"
            /\ UNCHANGED <<kpRet, fn>>
    /\ UNCHANGED <<sha, keys, ssRet, ssOut, args, kp, inr, ss, drew, imported, caller, ecFrame, notECSP>>

\* digit256_to_bigval(pub.x, &pubTemp.x); digit256_to_bigval(pub.y, &pubTemp.y);
\* bigval_to_binary(&pubTemp.x, X, coordinateSize); bigval_to_binary(&pubTemp.y, Y, coordinateSize);
\* digit256_to_bigval(priv, &privTemp); bigval_to_binary(&privTemp, D, privateKey->GetDSize());
KpConvert ==
    /\ fn = "keypair" /\ kpc = "convert"
    /\ LET px == digit256_to_bigval(kp.pub.x)
           py == digit256_to_bigval(kp.pub.y)
           pt == digit256_to_bigval(kp.priv)
       IN  kp' = [kp EXCEPT !.pubTemp = [x |-> px, y |-> py],
                            !.privTemp = pt,
                            !.X = bigval_to_binary(px, KeyBytes),
                            !.Y = bigval_to_binary(py, KeyBytes),
                            !.D = bigval_to_binary(pt, KeyBytes)]
    /\ kpc' = "import"
    /\ UNCHANGED <<sha, keys, kpRet, ssRet, ssOut, args, inr, ss, drew, imported, ecVars, notECSP>>

\* status = publicKey->Import(X, coordinateSize, Y, coordinateSize);
\* if (ER_OK == status) status = privateKey->Import(D, privateKey->GetDSize());
KpImport ==
    /\ fn = "keypair" /\ kpc = "import"
    /\ \/ /\ kp' = [kp EXCEPT !.status = "ER_FAIL"]
          /\ UNCHANGED keys
       \/ /\ kp' = [kp EXCEPT !.status = "ER_FAIL"]
          /\ keys' = [keys EXCEPT ![caller].X = kp.X, ![caller].Y = kp.Y]
       \/ /\ kp' = [kp EXCEPT !.status = "ER_OK"]
          /\ keys' = [keys EXCEPT ![caller] = [X |-> kp.X, Y |-> kp.Y, D |-> kp.D, pw |-> args.pw]]
    /\ imported' = TRUE
    /\ kpc' = "cleanup"
    /\ UNCHANGED <<sha, kpRet, ssRet, ssOut, args, inr, ss, drew, ecVars, notECSP>>

\* delete[] X; delete[] Y; ClearMemory(&privTemp, BIGLEN);
\* qcc::ClearMemory(D, privateKey->GetDSize()); delete[] D; return status;
KpCleanup ==
    /\ fn = "keypair" /\ kpc = "cleanup"
    /\ kp' = [kp EXCEPT !.privTemp = ClearMemory(kp.privTemp, BigLen),
                        !.D = ClearBytes(KeyBytes)]
    /\ kpRet' = [kpRet EXCEPT ![caller] = kp.status]
    /\ fn' = "none"
    /\ kpc' = "none"
    /\ UNCHANGED <<sha, keys, ssRet, ssOut, args, inr, ss, drew, imported, caller, ecFrame, notECSP>>

\* ---- Crypto_ECC_GenerateSharedSecret(peerPublicKey, privateKey, secret) ----

\* A party with a key pair calls Crypto_ECC_GenerateSharedSecret on its
\* peer's public key:
\* pub.infinity = 0; binary_to_bigval(peerPublicKey->GetX(), &pub.x, ...);
\* binary_to_bigval(peerPublicKey->GetY(), &pub.y, ...);
\* binary_to_bigval(privateKey->GetD(), &pk, ...);
\* derive_rv = ECDH_derive_pt(&localSecret, &pk, &pub);
SsCall(p) ==
    /\ fn = "none" /\ kpc = "none"
    /\ kpRet[p] = "ER_OK" /\ kpRet[Peer(p)] = "ER_OK"
    /\ ssRet[p] = "none"
    /\ LET Q == [x |-> binary_to_bigval(keys[Peer(p)].X),
                 y |-> binary_to_bigval(keys[Peer(p)].Y),
                 infinity |-> FALSE]
           k == binary_to_bigval(keys[p].D)
       IN  /\ ss' = [pk |-> k, pub |-> Q, derive_rv |-> "none"]
           /\ used' = [used EXCEPT ![p] = [k |-> k, Q |-> Q]]
    /\ derRet' = [derRet EXCEPT ![p] = "none"]
    /\ fn' = "derive"
    /\ fpc' = "getcurve"
    /\ kpc' = "derive"
    /\ caller' = p
    /\ der' = DerIdle
    /\ rngErr' = "none"
    /\ didMul' = FALSE
    /\ UNCHANGED <<priv, pub, secret, genRet, gen, entry>>
    /\ UNCHANGED <<sha, keys, kpRet, ssRet, ssOut, args, kp, inr, drew, imported, notECSP>>

\* if (!derive_rv) return ER_FAIL;
\* U32ArrayToU8BeArray((const uint32_t*)&localSecret, U32_AFFINEPOINT_SZ, (uint8_t*)secret);
\* return ER_OK;
SsReturn ==
    /\ fn = "none" /\ kpc = "derive"
    /\ ss' = [ss EXCEPT !.derive_rv = derRet[caller]]
    /\ IF derRet[caller] = "false"
       THEN /\ ssRet' = [ssRet EXCEPT ![caller] = "ER_FAIL"]
            /\ UNCHANGED ssOut
       ELSE /\ ssRet' = [ssRet EXCEPT ![caller] = "ER_OK"]
            /\ ssOut' = [ssOut EXCEPT ![caller] =
                            [x |-> U32ArrayToU8BeArray(secret[caller].x),
                             y |-> U32ArrayToU8BeArray(secret[caller].y),
                             infinity |-> secret[caller].infinity]]
    /\ kpc' = "none"
    /\ UNCHANGED <<sha, keys, kpRet, args, kp, inr, drew, imported, ecVars, notECSP>>

NextSPEKE ==
    \/ \E p \in Parties : KpCall(p)
    \/ KpNullCheck
    \/ InnerCheck
    \/ InnerGetCurve
    \/ InnerHash
    \/ InnerREDP2
    \/ InnerDraw
    \/ InnerScalarMul
    \/ InnerExit
    \/ KpAfterInner
    \/ KpConvert
    \/ KpImport
    \/ KpCleanup
    \/ \E p \in Parties : SsCall(p)
    \/ DerGetCurve
    \/ DerConvert
    \/ DerValidate
    \/ DerScalarMul
    \/ DerCheck
    \/ DerExit
    \/ SsReturn

(***************************************************************************)
(*                               ec_REDP1                                  *)
(***************************************************************************)

\* every byte array of n bytes
ByteArrays(n) == [1..n -> 0..(ByteRange - 1)]

\* fpissquare_p256: alpha is the square of a field element
fpissquare_p256(alpha) == \E y \in 0..(Curve.p - 1) : (y * y) % Curve.p = alpha

RECURSIVE FieldPow(_, _)
FieldPow(a, e) == IF e = 0 THEN 1 ELSE (a * FieldPow(a, e - 1)) % Curve.p

\* fpsqrt_p256: a square root of a square, alpha ^ ((p + 1) / 4) as p = 3 (mod 4)
fpsqrt_p256(alpha) == FieldPow(alpha, (Curve.p + 1) \div 4)

\* fpneg_p256
fpneg_p256(beta) == (Curve.p - beta) % Curve.p

\* alpha = x^3 + a*x + b (mod p), by fpmul_p256 and fpadd_p256
CurveRHS(x) == (((((x * x) % Curve.p) * x) % Curve.p) + ((x * Curve.a) % Curve.p) + Curve.b) % Curve.p

RECURSIVE IncrementFrom(_, _, _)
\* carry = 1; for (i = sizeof(digest_i1) - 1; i >= 0; i--)
\*     { digest_i1[i] += carry; carry = (digest_i1[i] == 0); }
\* from index i down, with the carry that comes in: the digest and the carry
\* that come out
IncrementFrom(digest, i, carry) ==
    IF i = 0 THEN [digest |-> digest, carry |-> carry]
    ELSE LET byte == (digest[i] + carry) % ByteRange
         IN  IncrementFrom([digest EXCEPT ![i] = byte], i - 1, IF byte = 0 THEN 1 ELSE 0)

RdIdle == [digest_i1 |-> <<>>, bytes_O3 |-> <<>>, hashed |-> <<>>, before |-> <<>>,
           x |-> Indeterminate, alpha |-> Indeterminate, beta |-> Indeterminate,
           mu |-> Indeterminate, carry |-> Indeterminate, status |-> "none",
           Q |-> IndeterminatePoint]

InitRD ==
    /\ rd = RdIdle
    /\ rpc = "none"

\* ec_REDP1(pi, len, Q, curve) is called: QStatus status = ER_OK;
RdCall ==
    /\ rpc = "none"
    /\ rd' = [RdIdle EXCEPT !.status = "ER_OK"]
    /\ rpc' = "hashpi"
    /\ UNCHANGED notRD

\* hash.Init(); hash.Update(pi, len); hash.GetDigest(digest_i1);
\* each with if (status != ER_OK) goto Exit;
RdHashPi ==
    /\ rpc = "hashpi"
    /\ \/ \E digest \in ByteArrays(DigestLen) :
            /\ rd' = [rd EXCEPT !.digest_i1 = digest]
            /\ rpc' = "loop"
       \/ /\ rd' = [rd EXCEPT !.status = "ER_CRYPTO_ERROR"]
          /\ rpc' = "exit"
    /\ UNCHANGED notRD

\* mu = digest_i1[sizeof(digest_i1) - 1] % 2;
\* hash.Init(); hash.Update(digest_i1, sizeof(digest_i1)); hash.GetDigest(bytes_O3);
\* each with if (status != ER_OK) goto Exit;
RdHashDigest ==
    /\ rpc = "loop"
    /\ \/ \E bytes \in ByteArrays(DigestLen) :
            /\ rd' = [rd EXCEPT !.mu = rd.digest_i1[DigestLen] % 2,
                                !.bytes_O3 = bytes,
                                !.hashed = rd.digest_i1]
            /\ rpc' = "candidate"
       \/ /\ rd' = [rd EXCEPT !.mu = rd.digest_i1[DigestLen] % 2,
                              !.status = "ER_CRYPTO_ERROR"]
          /\ rpc' = "exit"
    /\ UNCHANGED notRD

\* A faulty candidate step: beta is never negated.
RdCandidate_NoNegate ==
    /\ rpc = "candidate"
    /\ LET x == fpimport_p256(rd.bytes_O3)
           alpha == CurveRHS(x)
       IN  IF fpissquare_p256(alpha)
           THEN LET beta == fpsqrt_p256(alpha)
                IN  /\ rd' = [rd EXCEPT !.x = x, !.alpha = alpha, !.beta = beta,
                                        !.Q = [x |-> x, y |-> beta]]
                    /\ rpc' = "validate"
           ELSE /\ rd' = [rd EXCEPT !.x = x, !.alpha = alpha]
                /\ rpc' = "increment"
    /\ UNCHANGED notRD

\* fpimport_p256(bytes_O3, x, temps, true); alpha = x^3 + a*x + b;
\* if (fpissquare_p256(alpha)) fpsqrt_p256(alpha, beta) else { increment; continue; }
\* if (mu) fpneg_p256(beta); memcpy(Q->x, x); memcpy(Q->y, beta); break;
RdCandidate ==
    /\ rpc = "candidate"
    /\ LET x == fpimport_p256(rd.bytes_O3)
           alpha == CurveRHS(x)
       IN  IF fpissquare_p256(alpha)
           THEN LET root == fpsqrt_p256(alpha)
                    beta == IF rd.mu # 0 THEN fpneg_p256(root) ELSE root
                IN  /\ rd' = [rd EXCEPT !.x = x, !.alpha = alpha, !.beta = beta,
                                        !.Q = [x |-> x, y |-> beta]]
                    /\ rpc' = "validate"
           ELSE /\ rd' = [rd EXCEPT !.x = x, !.alpha = alpha]
                /\ rpc' = "increment"
    /\ UNCHANGED notRD

\* carry = 1; for (...) { digest_i1[i] += carry; carry = (digest_i1[i] == 0); }
\* if (carry) { status = ER_CRYPTO_ERROR; goto Exit; } continue;
RdIncrement ==
    /\ rpc = "increment"
    /\ LET out == IncrementFrom(rd.digest_i1, DigestLen, 1)
       IN  /\ rd' = [rd EXCEPT !.before = rd.digest_i1,
                               !.digest_i1 = out.digest,
                               !.carry = out.carry,
                               !.status = IF out.carry # 0 THEN "ER_CRYPTO_ERROR" ELSE @]
           /\ rpc' = IF out.carry # 0 THEN "exit" ELSE "loop"
    /\ UNCHANGED notRD

\* if (!ecpoint_validation(Q, curve)) { status = ER_CRYPTO_ERROR; goto Exit; }
RdValidate ==
    /\ rpc = "validate"
    /\ rd' = [rd EXCEPT !.status = IF ecpoint_validation(rd.Q) THEN @ ELSE "ER_CRYPTO_ERROR"]
    /\ rpc' = "exit"
    /\ UNCHANGED notRD

\* Exit: return status;
RdExit ==
    /\ rpc = "exit"
    /\ rpc' = "none"
    /\ UNCHANGED <<rd, notRD>>

NextREDP ==
    \/ RdCall
    \/ RdHashPi
    \/ RdHashDigest
    \/ RdCandidate
    \/ RdIncrement
    \/ RdValidate
    \/ RdExit

(***************************************************************************)
(*  The multi-word arithmetic of CryptoECCMath.cc: big_mpyP,               *)
(*  big_precise_reduce, big_divide and what they call                      *)
(***************************************************************************)

\* the bits of a uint32_t word, scaled down
WordBits == 5

WordRange == 2 ^ WordBits

\* a uint64_t or int64_t accumulator has two words' bits
AccRange == WordRange * WordRange

\* the words of a bigval_t, and the index of its most significant word
BIGLEN == 9

MSW == BIGLEN - 1

\* bigval_t: data[0..MSW], least significant word first; data[i] is a[i + 1]
BigVals == [1..BIGLEN -> 0..(WordRange - 1)]

\* (int32_t)x for a word x
Int32(x) == IF x >= WordRange \div 2 THEN x - WordRange ELSE x

\* (uint32_t)x
UInt32(x) == x % WordRange

\* x as a uint64_t
UInt64(x) == x % AccRange

\* x fits an int64_t
InInt64(x) == x >= 0 - (AccRange \div 2) /\ x < AccRange \div 2

big_zero == [i \in 1..BIGLEN |-> 0]

big_one == [i \in 1..BIGLEN |-> IF i = 1 THEN 1 ELSE 0]

\* the curve modulus 2^(8w) - 2^(7w) + 2^(6w) + 2^(3w) - 1 for words of w bits
modulusP ==
    <<WordRange - 1, WordRange - 1, WordRange - 1, 0, 0, 0, 1, WordRange - 1, 0>>

\* the curve order: a prime slightly less than 2^(8w) with the high words
\* of the order of P-256
orderP == <<23, 30, 20, 23, WordRange - 1, WordRange - 1, 0, WordRange - 1, 0>>

big_is_zero(a) == \A i \in 0..MSW : a[i + 1] = 0

big_is_one(a) == a[1] = 1 /\ \A i \in 1..MSW : a[i + 1] = 0

big_is_negative(a) == Int32(a[MSW + 1]) < 0

big_is_odd(a) == a[1] % 2 = 1

\* big_add, from word i with v carried in
RECURSIVE big_add_from(_, _, _, _)
big_add_from(a, b, i, v) ==
    IF i >= BIGLEN THEN <<>>
    ELSE LET s == UInt64(UInt64(v + a[i + 1]) + b[i + 1])
         IN  <<UInt32(s)>> \o big_add_from(a, b, i + 1, s \div WordRange)

\* big_add(tgt, a, b): tgt = a + b as two's complement numbers
big_add(a, b) == big_add_from(a, b, 0, 0)

\* big_sub, from word i with v carried in
RECURSIVE big_sub_from(_, _, _, _)
big_sub_from(a, b, i, v) ==
    IF i >= BIGLEN THEN <<>>
    ELSE LET s == UInt64(UInt64(v + a[i + 1]) + (WordRange - 1 - b[i + 1]))
         IN  <<UInt32(s)>> \o big_sub_from(a, b, i + 1, s \div WordRange)

\* big_sub(tgt, a, b): tgt = a - b, as a + ~b + 1
big_sub(a, b) == big_sub_from(a, b, 0, 1)

\* the terms RDCSTEP adds for k * modulusP, word by word
AdjustTerms(k) == <<0 - k, 0, 0, k, 0, 0, k, 0 - k, k>>

\* RDCSTEP(i, adj) from word i on, with w carried in
RECURSIVE big_adjustP_from(_, _, _, _)
big_adjustP_from(a, k, i, w) ==
    IF i >= BIGLEN THEN <<>>
    ELSE LET s == w + a[i + 1] + AdjustTerms(k)[i + 1]
         IN  <<UInt32(s)>> \o big_adjustP_from(a, k, i + 1, s \div WordRange)

\* big_adjustP(tgt, a, k): tgt = a + k * modulusP
big_adjustP(a, k) == IF k # 0 THEN big_adjustP_from(a, k, 0, 0) ELSE a

\* big_approx_reduceP without the cast of the most significant word to int32_t
big_approx_reduceP_Unsigned(src) == big_adjustP(src, 0 - src[MSW + 1])

\* big_approx_reduceP(tgt, src): subtracts the most significant word times
\* the modulus
big_approx_reduceP(src) == big_adjustP(src, 0 - Int32(src[MSW + 1]))

\* big_1wd_mpy, from word j with w carried in
RECURSIVE big_1wd_mpy_from(_, _, _, _)
big_1wd_mpy_from(a, k, j, w) ==
    IF j > MSW THEN <<>>
    ELSE LET s == w + k * a[j + 1]
         IN  <<UInt32(s)>> \o big_1wd_mpy_from(a, k, j + 1, (s - UInt32(s)) \div WordRange)

\* big_1wd_mpy(tgt, a, k): tgt = k * a
big_1wd_mpy(a, k) == big_1wd_mpy_from(a, k, 0, 0)

\* big_cmp on the words below the most significant, from word i down
RECURSIVE big_cmp_from(_, _, _)
big_cmp_from(a, b, i) ==
    IF i < 0 THEN 0
    ELSE IF a[i + 1] > b[i + 1] THEN 1
    ELSE IF a[i + 1] < b[i + 1] THEN 0 - 1
    ELSE big_cmp_from(a, b, i - 1)

\* big_cmp(a, b): 1 if a > b, -1 if a < b, 0 if equal
big_cmp(a, b) ==
    IF Int32(a[MSW + 1]) > Int32(b[MSW + 1]) THEN 1
    ELSE IF Int32(a[MSW + 1]) < Int32(b[MSW + 1]) THEN 0 - 1
    ELSE big_cmp_from(a, b, MSW - 1)

\* big_halve(tgt, a): tgt = floor(a / 2)
big_halve(a) ==
    [i \in 1..BIGLEN |->
        IF i = MSW + 1
        THEN UInt32(Int32(a[i]) \div 2)
        ELSE (a[i] \div 2) + (a[i + 1] % 2) * (WordRange \div 2)]

\* mpy_accum(&cumcarry, &sum, a, b): (sum, carry) += a * b
mpy_accum(acc, a, b) ==
    LET product == a * b
        lsum == UInt64(acc.sum + product)
    IN  [sum |-> lsum, carry |-> acc.carry + IF lsum < product THEN 1 ELSE 0]

\* mpy_accum_dbl(&cumcarry, &sum, a, b): (sum, carry) += 2 * a * b
mpy_accum_dbl(acc, a, b) == mpy_accum(mpy_accum(acc, a, b), a, b)

\* MIN and MAX
MIN(a, b) == IF a < b THEN a ELSE b

MAX(a, b) == IF a > b THEN a ELSE b

\* the number of words of a up to its last non-zero word, from n down
RECURSIVE WordsUsed(_, _)
WordsUsed(a, n) == IF n > 1 /\ a[n] = 0 THEN WordsUsed(a, n - 1) ELSE n

\* ACCUM(a->data + i - j, b->data + j) for j = minj..maxj
RECURSIVE AccumColumn(_, _, _, _, _, _)
AccumColumn(acc, a, b, i, j, maxj) ==
    IF j > maxj THEN acc
    ELSE AccumColumn(mpy_accum(acc, a[i - j + 1], b[j + 1]), a, b, i, j + 1, maxj)

\* ACCUMDBL(a->data + i - j, a->data + j) for j = minj..maxj
RECURSIVE AccumDblColumn(_, _, _, _, _)
AccumDblColumn(acc, a, i, j, maxj) ==
    IF j > maxj THEN acc
    ELSE AccumDblColumn(mpy_accum_dbl(acc, a[i - j + 1], a[j + 1]), a, i, j + 1, maxj)

\* ---- a reference arithmetic on natural numbers below WordRange^BIGLEN,
\* ---- each kept as two limbs: lo, its low LimbWords words, and hi, the rest

LimbWords == 4

LimbRange == WordRange ^ LimbWords

\* the number the words i..n of a make, word i counting as units
RECURSIVE WordsValue(_, _, _)
WordsValue(a, i, n) == IF i > n THEN 0 ELSE a[i] + WordRange * WordsValue(a, i + 1, n)

\* the number the words of a make when all are read as unsigned
NatOf(a) == [lo |-> WordsValue(a, 1, LimbWords), hi |-> WordsValue(a, LimbWords + 1, BIGLEN)]

NatZero == [lo |-> 0, hi |-> 0]

NatOne == [lo |-> 1, hi |-> 0]

\* x + y
NatAdd(x, y) ==
    [lo |-> (x.lo + y.lo) % LimbRange, hi |-> x.hi + y.hi + ((x.lo + y.lo) \div LimbRange)]

\* x - y for x >= y
NatSub(x, y) ==
    [lo |-> (x.lo - y.lo) % LimbRange, hi |-> x.hi - y.hi + ((x.lo - y.lo) \div LimbRange)]

\* x < y
NatLess(x, y) == x.hi < y.hi \/ (x.hi = y.hi /\ x.lo < y.lo)

\* (x + y) mod m for x, y < m
NatAddMod(x, y, m) ==
    LET s == NatAdd(x, y) IN IF NatLess(s, m) THEN s ELSE NatSub(s, m)

\* (x - y) mod m for x, y < m
NatSubMod(x, y, m) == IF NatLess(x, y) THEN NatSub(NatAdd(x, m), y) ELSE NatSub(x, y)

\* word i of x, the lowest being word 1
NatWord(x, i) ==
    IF i <= LimbWords
    THEN (x.lo \div (WordRange ^ (i - 1))) % WordRange
    ELSE (x.hi \div (WordRange ^ (i - 1 - LimbWords))) % WordRange

\* (acc * 2^n + x * the number the low n bits of d make) mod m, for acc, x < m
RECURSIVE NatPushBits(_, _, _, _, _)
NatPushBits(x, d, n, acc, m) ==
    IF n = 0 THEN acc
    ELSE LET twice == NatAddMod(acc, acc, m)
         IN  NatPushBits(x, d, n - 1,
                         IF (d \div (2 ^ (n - 1))) % 2 = 1 THEN NatAddMod(twice, x, m) ELSE twice,
                         m)

\* (acc * WordRange^i + x * the number the words 1..i of y make) mod m, for
\* acc, x < m; each accumulator is computed before the next word is taken
RECURSIVE NatMulModFrom(_, _, _, _, _)
NatMulModFrom(x, y, i, acc, m) ==
    IF i < 1 THEN acc
    ELSE CHOOSE r \in {NatMulModFrom(x, y, i - 1, next, m) :
                           next \in {NatPushBits(x, NatWord(y, i), WordBits, acc, m)}} : TRUE

\* (x * y) mod m for x < m
NatMulMod(x, y, m) == NatMulModFrom(x, y, BIGLEN, NatZero, m)

\* x mod m, for m > 1
NatMod(x, m) == NatMulMod(NatOne, x, m)

\* WordRange^BIGLEN mod m
NatRangeMod(m) ==
    LET half == NatMod([lo |-> 0, hi |-> LimbRange * (WordRange \div 2)], m)
    IN  NatAddMod(half, half, m)

\* the residue modulo m of the two's complement number the bigval_t a holds
Residue(a, m) ==
    IF big_is_negative(a)
    THEN NatSubMod(NatMod(NatOf(a), NatOf(m)), NatRangeMod(NatOf(m)), NatOf(m))
    ELSE NatMod(NatOf(a), NatOf(m))

\* the residue modulo m of the product of the numbers a and b hold
ProductResidue(a, b, m) ==
    CHOOSE r \in {NatMulMod(x, y, NatOf(m)) : x \in {Residue(a, m)}, y \in {Residue(b, m)}} : TRUE

\* a holds a number in [0, m)
PreciselyReduced(a, m) == a[MSW + 1] = 0 /\ NatLess(NatOf(a), NatOf(m))

\* ---- the calls: big_mpyP followed by big_precise_reduce, big_precise_reduce
\* ---- alone, and big_divide

\* the bigval_t a modulus argument points to
ModulusOf(name) == IF name = "modulusP" THEN modulusP ELSE orderP

\* no call was made
BgIdle ==
    [call |-> "none", a |-> big_zero, b |-> big_zero, same |-> FALSE,
     modulus |-> "modulusP",
     w |-> <<>>, i |-> 0, accum |-> [sum |-> 0, carry |-> 0], a_words |-> 0, b_words |-> 0,
     product |-> <<>>,
     arg |-> <<>>, tgt |-> <<>>, aliased |-> FALSE, src |-> "a",
     u |-> <<>>, v |-> <<>>, x1 |-> <<>>, x2 |-> <<>>, passes |-> 0]

InitBig ==
    /\ bg = BgIdle
    /\ bpc = "idle"

\* the bigval_t src points to inside big_precise_reduce
SrcOf(g) == IF g.src = "a" THEN g.arg ELSE g.tgt

\* a store through tgt inside big_precise_reduce: it also changes *a when
\* the caller passed the same object for both
StoreTgt(g, val) ==
    IF g.aliased THEN [g EXCEPT !.tgt = val, !.arg = val, !.src = "tgt"]
    ELSE [g EXCEPT !.tgt = val, !.src = "tgt"]

\* (int64_t)u for a uint64_t u
AsInt64(u) == IF u >= AccRange \div 2 THEN u - AccRange ELSE u

\* for (; i < 2 * BIGLEN - 1; ++i) { w[i] = u_accum & 0xffffffff; u_accum >>= 32; }
\* w[i] = u_accum;
RECURSIVE PropagateResidual(_, _, _)
PropagateResidual(w, i, u) ==
    IF i < 2 * BIGLEN - 1
    THEN PropagateResidual(Append(w, u % WordRange), i + 1, u \div WordRange)
    ELSE Append(w, AsInt64(u))

\* the correction of w for negative arguments
CorrectSigns(w, a, b) ==
    [n \in 1..(2 * BIGLEN) |->
        LET i == n - 1 - BIGLEN
        IN  IF i < 0 THEN w[n]
            ELSE w[n] - (IF big_is_negative(a) THEN b[i + 1] ELSE 0)
                      - (IF big_is_negative(b) THEN a[i + 1] ELSE 0)
                      + (IF big_is_negative(a) /\ big_is_negative(b) /\ i = MSW
                         THEN WordRange ELSE 0)]

\* s_accum += w[i]; tgt->data[i] = (uint32_t)s_accum; s_accum >>= 32;
\* from word i on
RECURSIVE CopyOut(_, _, _)
CopyOut(w, i, s_accum) ==
    IF i >= BIGLEN THEN <<>>
    ELSE LET s == s_accum + w[i + 1]
         IN  <<UInt32(s)>> \o CopyOut(w, i + 1, s \div WordRange)

\* operands of big_mpyP, big_addP and big_subP, approximately reduced (in
\* [-P, 2P)): 0, 1, P - 1, P, -1, 1 - P, 2^(8w) - 1, three residues (one of few
\* words, one minus P, one plus P), 2^(3w) - 1 - P, and -P, 2P - 1, 2^(8w)
MpyOperands ==
    {<<0, 0, 0, 0, 0, 0, 0, 0, 0>>,
     <<1, 0, 0, 0, 0, 0, 0, 0, 0>>,
     <<30, 31, 31, 0, 0, 0, 1, 31, 0>>,
     <<31, 31, 31, 0, 0, 0, 1, 31, 0>>,
     <<31, 31, 31, 31, 31, 31, 31, 31, 31>>,
     <<2, 0, 0, 31, 31, 31, 30, 0, 31>>,
     <<31, 31, 31, 31, 31, 31, 31, 31, 0>>,
     <<13, 11, 9, 30, 28, 25, 21, 27, 0>>,
     <<7, 17, 15, 2, 0, 0, 0, 0, 0>>,
     <<14, 4, 4, 17, 9, 22, 30, 25, 31>>,
     <<6, 17, 15, 27, 20, 7, 15, 26, 1>>,
     <<0, 0, 0, 0, 0, 0, 31, 0, 31>>,
     <<1, 0, 0, 31, 31, 31, 30, 0, 31>>,
     <<29, 31, 31, 1, 0, 0, 2, 30, 1>>,
     <<0, 0, 0, 0, 0, 0, 0, 0, 1>>}

\* arguments of big_precise_reduce over the whole range of a bigval_t: 0, 1, -1, the
\* extremes, the moduli and their neighbours, 2^(8w) and its neighbours, negative
\* values that need one and two additions, and values with a large most significant word
ReduceOperands ==
    {<<0, 0, 0, 0, 0, 0, 0, 0, 0>>,
     <<1, 0, 0, 0, 0, 0, 0, 0, 0>>,
     <<31, 31, 31, 31, 31, 31, 31, 31, 31>>,
     <<0, 0, 0, 0, 0, 0, 0, 0, 16>>,
     <<31, 31, 31, 31, 31, 31, 31, 31, 15>>,
     <<31, 31, 31, 0, 0, 0, 1, 31, 0>>,
     <<30, 31, 31, 0, 0, 0, 1, 31, 0>>,
     <<0, 0, 0, 1, 0, 0, 1, 31, 0>>,
     <<23, 30, 20, 23, 31, 31, 0, 31, 0>>,
     <<22, 30, 20, 23, 31, 31, 0, 31, 0>>,
     <<0, 0, 0, 0, 0, 0, 0, 0, 1>>,
     <<31, 31, 31, 31, 31, 31, 31, 31, 0>>,
     <<0, 0, 0, 0, 0, 0, 0, 0, 31>>,
     <<1, 0, 0, 0, 0, 0, 0, 0, 31>>,
     <<1, 0, 0, 31, 31, 31, 30, 0, 31>>,
     <<0, 0, 0, 0, 0, 0, 0, 1, 31>>,
     <<1, 30, 21, 9, 19, 27, 21, 14, 14>>,
     <<18, 17, 22, 29, 5, 11, 14, 2, 22>>,
     <<30, 31, 31, 1, 0, 0, 2, 30, 1>>,
     <<31, 31, 31, 31, 31, 31, 31, 31, 16>>}

\* numerators of big_divide, precisely reduced modulo the order
Numerators ==
    {<<0, 0, 0, 0, 0, 0, 0, 0, 0>>,
     <<1, 0, 0, 0, 0, 0, 0, 0, 0>>,
     <<22, 30, 20, 23, 31, 31, 0, 31, 0>>,
     <<24, 19, 25, 11, 20, 23, 20, 25, 0>>}

\* denominators of big_divide, non-zero and precisely reduced modulo the order
Denominators ==
    {<<1, 0, 0, 0, 0, 0, 0, 0, 0>>,
     <<2, 0, 0, 0, 0, 0, 0, 0, 0>>,
     <<22, 30, 20, 23, 31, 31, 0, 31, 0>>,
     <<0, 0, 0, 0, 0, 0, 0, 16, 0>>,
     <<3, 14, 28, 24, 16, 1, 6, 15, 0>>,
     <<27, 19, 31, 31, 19, 16, 22, 19, 0>>}

\* A caller multiplies a and b: big_mpyP(tgt, a, b, MOD_MODULUS); a and b
\* can be the same object.
BigCallMpy ==
    /\ bpc = "idle"
    /\ \E a \in MpyOperands, b \in MpyOperands, same \in BOOLEAN :
        /\ same => a = b
        /\ bg' = [BgIdle EXCEPT !.call = "mpy", !.a = a, !.b = b, !.same = same]
    /\ bpc' = "mpy_zero"
    /\ UNCHANGED notBG

\* if (big_is_zero(a) || big_is_zero(b)) { memset(tgt, 0, sizeof(bigval_t)); return; }
\* a_words = BIGLEN; while (a_words > 1 && a->data[a_words - 1] == 0) --a_words;
\* u_accum = 0; cum_carry = 0;
\* if (NO_SPECIAL_SQUARE || a != b) { b_words = BIGLEN; while (...) --b_words; ... }
MpyZeroCheck ==
    /\ bpc = "mpy_zero"
    /\ IF big_is_zero(bg.a) \/ big_is_zero(bg.b)
       THEN /\ bg' = [bg EXCEPT !.product = big_zero]
            /\ bpc' = "mpy_return"
       ELSE /\ bg' = [bg EXCEPT !.a_words = WordsUsed(bg.a, BIGLEN),
                                !.b_words = IF bg.same THEN 0 ELSE WordsUsed(bg.b, BIGLEN),
                                !.accum = [sum |-> 0, carry |-> 0],
                                !.i = 0]
            /\ bpc' = IF bg.same THEN "mpy_square" ELSE "mpy_multiply"
    /\ UNCHANGED notBG

\* one store of the i-loops: w[i] = u_accum & 0xffffffff;
\* u_accum = (u_accum >> 32) + ((uint64_t)cum_carry << 32); cum_carry = 0;
StoreColumn(g, acc) ==
    [g EXCEPT !.w = Append(g.w, acc.sum % WordRange),
              !.accum = [sum |-> UInt64((acc.sum \div WordRange) + acc.carry * WordRange),
                         carry |-> 0],
              !.i = g.i + 1]

\* normal multiply, one pass of
\* for (i = 0; i < a_words + b_words - 1; ++i) {
\*     maxj = MIN(b_words - 1, i); minj = MAX(0, i - a_words + 1);
\*     ACCUM(a->data + i - j, b->data + j) for j = minj..maxj; store w[i] }
MpyMultiply ==
    /\ bpc = "mpy_multiply"
    /\ IF bg.i < bg.a_words + bg.b_words - 1
       THEN LET maxj == MIN(bg.b_words - 1, bg.i)
                minj == MAX(0, bg.i - bg.a_words + 1)
            IN  /\ bg' = StoreColumn(bg, AccumColumn(bg.accum, bg.a, bg.b, bg.i, minj, maxj))
                /\ bpc' = bpc
       ELSE /\ bpc' = "mpy_residual"
            /\ bg' = bg
    /\ UNCHANGED notBG

\* squaring, one pass of
\* for (i = 0; i < 2 * a_words - 1; ++i) {
\*     maxj = MIN(a_words - 1, i); maxj = MIN(maxj, (i - 1) >> 1);
\*     minj = MAX(0, i - a_words + 1);
\*     ACCUMDBL(a->data + i - j, a->data + j) for j = minj..maxj;
\*     if ((i & 1) == 0) ACCUM(a->data + maxj + 1, a->data + maxj + 1); store w[i] }
MpySquare ==
    /\ bpc = "mpy_square"
    /\ IF bg.i < 2 * bg.a_words - 1
       THEN LET maxj == MIN(MIN(bg.a_words - 1, bg.i), (bg.i - 1) \div 2)
                minj == MAX(0, bg.i - bg.a_words + 1)
                dbl == AccumDblColumn(bg.accum, bg.a, bg.i, minj, maxj)
                acc == IF bg.i % 2 = 0
                       THEN mpy_accum(dbl, bg.a[maxj + 2], bg.a[maxj + 2])
                       ELSE dbl
            IN  /\ bg' = StoreColumn(bg, acc)
                /\ bpc' = bpc
       ELSE /\ bpc' = "mpy_residual"
            /\ bg' = bg
    /\ UNCHANGED notBG

\* propagate any residual to the end of the array; the last word gets all
\* 64 bits
MpyResidual ==
    /\ bpc = "mpy_residual"
    /\ bg' = [bg EXCEPT !.w = PropagateResidual(bg.w, bg.i, bg.accum.sum),
                        !.i = 2 * BIGLEN - 1]
    /\ bpc' = "mpy_correct"
    /\ UNCHANGED notBG

\* The product is left as the unsigned multiplication gave it.
MpyCorrect_Unsigned ==
    /\ bpc = "mpy_correct"
    /\ bg' = [bg EXCEPT !.i = 2 * BIGLEN - 1]
    /\ bpc' = "mpy_reduce"
    /\ UNCHANGED notBG

\* if (big_is_negative(a)) w[i + BIGLEN] -= b->data[i];
\* if (big_is_negative(b)) { w[i + BIGLEN] -= a->data[i];
\*     if (big_is_negative(a)) w[2 * BIGLEN - 1] += 1ULL << 32; }
MpyCorrect ==
    /\ bpc = "mpy_correct"
    /\ bg' = [bg EXCEPT !.w = CorrectSigns(bg.w, bg.a, bg.b), !.i = 2 * BIGLEN - 1]
    /\ bpc' = "mpy_reduce"
    /\ UNCHANGED notBG

\* reduce (approximate), one pass of
\* for (i = 2 * BIGLEN - 1; i >= MSW; --i) { v = w[i];
\*     if (v != 0) { w[i] = 0; w[i - 1] += v; w[i - 2] -= v; w[i - 5] -= v; w[i - 8] += v; } }
MpyReduce ==
    /\ bpc = "mpy_reduce"
    /\ IF bg.i >= MSW
       THEN LET i == bg.i
                v == bg.w[i + 1]
            IN  /\ bg' = [bg EXCEPT !.w = [bg.w EXCEPT ![i + 1] = 0,
                                                       ![i] = @ + v,
                                                       ![i - 1] = @ - v,
                                                       ![i - 4] = @ - v,
                                                       ![i - 7] = @ + v],
                                    !.i = i - 1]
                /\ bpc' = bpc
       ELSE /\ bpc' = "mpy_copy"
            /\ bg' = bg
    /\ UNCHANGED notBG

\* propagate carries and copy out to tgt in 32 bit chunks
MpyCopyOut ==
    /\ bpc = "mpy_copy"
    /\ bg' = [bg EXCEPT !.product = CopyOut(bg.w, 0, 0)]
    /\ bpc' = "mpy_final"
    /\ UNCHANGED notBG

\* final approximate reduction: big_approx_reduceP(tgt, tgt);
MpyFinal ==
    /\ bpc = "mpy_final"
    /\ bg' = [bg EXCEPT !.product = big_approx_reduceP(bg.product)]
    /\ bpc' = "mpy_return"
    /\ UNCHANGED notBG

\* The caller reduces the product in place:
\* big_precise_reduce(tgt, tgt, &modulusP); src = a;
MpyThenReduce ==
    /\ bpc = "mpy_return"
    /\ bg' = [bg EXCEPT !.arg = bg.product, !.tgt = bg.product, !.aliased = TRUE,
                        !.modulus = "modulusP", !.src = "a"]
    /\ bpc' = "reduce_msw"
    /\ UNCHANGED notBG

\* big_addP(tgt, a, b): big_add(tgt, a, b); big_approx_reduceP(tgt, tgt);
\* arg keeps what big_add wrote
BigAddP ==
    /\ bpc = "idle"
    /\ \E a \in MpyOperands, b \in MpyOperands :
        bg' = [BgIdle EXCEPT !.call = "addP", !.a = a, !.b = b,
                             !.arg = big_add(a, b), !.tgt = big_approx_reduceP(big_add(a, b))]
    /\ bpc' = "done"
    /\ UNCHANGED notBG

\* big_subP(tgt, a, b): big_sub(tgt, a, b); big_approx_reduceP(tgt, tgt);
\* arg keeps what big_sub wrote
BigSubP ==
    /\ bpc = "idle"
    /\ \E a \in MpyOperands, b \in MpyOperands :
        bg' = [BgIdle EXCEPT !.call = "subP", !.a = a, !.b = b,
                             !.arg = big_sub(a, b), !.tgt = big_approx_reduceP(big_sub(a, b))]
    /\ bpc' = "done"
    /\ UNCHANGED notBG

\* big_halveP without the addition of the modulus to an odd a
BigHalveP_Truncating ==
    /\ bpc = "idle"
    /\ \E a \in MpyOperands :
        bg' = [BgIdle EXCEPT !.call = "halveP", !.a = a, !.arg = a, !.tgt = big_halve(a)]
    /\ bpc' = "done"
    /\ UNCHANGED notBG

\* big_halveP(tgt, a): if (a->data[0] & 1) { big_adjustP(tgt, a, 1);
\* big_halve(tgt, tgt); } else { big_halve(tgt, a); }
\* arg keeps what was halved
BigHalveP ==
    /\ bpc = "idle"
    /\ \E a \in MpyOperands :
        LET halved == IF big_is_odd(a) THEN big_adjustP(a, 1) ELSE a
        IN bg' = [BgIdle EXCEPT !.call = "halveP", !.a = a, !.arg = halved,
                                !.tgt = big_halve(halved)]
    /\ bpc' = "done"
    /\ UNCHANGED notBG

\* A caller reduces a modulo the curve modulus or the curve order, into a
\* itself or into another bigval_t: big_precise_reduce(tgt, a, modulus); src = a;
BigCallReduce ==
    /\ bpc = "idle"
    /\ \E a \in ReduceOperands, m \in {"modulusP", "orderP"}, al \in BOOLEAN :
        bg' = [BgIdle EXCEPT !.call = "reduce", !.a = a, !.modulus = m,
                             !.arg = a, !.tgt = IF al THEN a ELSE <<>>,
                             !.aliased = al, !.src = "a"]
    /\ bpc' = "reduce_msw"
    /\ UNCHANGED notBG

\* one pass of
\* while ((int32_t)src->data[MSW] != 0) {
\*     if (modulus != &modulusP) { big_1wd_mpy(&tmp, modulus, (int32_t)src->data[MSW]);
\*                                 big_sub(tgt, src, &tmp); }
\*     else big_adjustP(tgt, src, -(int64_t)(int32_t)src->data[MSW]);
\*     src = tgt; }
ReduceMSW ==
    /\ bpc = "reduce_msw"
    /\ LET src == SrcOf(bg)
           msw == Int32(src[MSW + 1])
       IN  IF msw # 0
           THEN /\ bg' = StoreTgt(bg, IF bg.modulus # "modulusP"
                                      THEN big_sub(src, big_1wd_mpy(ModulusOf(bg.modulus), msw))
                                      ELSE big_adjustP(src, 0 - msw))
                /\ bpc' = bpc
           ELSE /\ bpc' = "reduce_sub"
                /\ bg' = bg
    /\ UNCHANGED notBG

\* The second loop is left out: a value in [modulus, 2^(8w)) is returned as it is.
ReduceSub_Skipped ==
    /\ bpc = "reduce_sub"
    /\ bpc' = "reduce_add"
    /\ bg' = bg
    /\ UNCHANGED notBG

\* one pass of
\* while (big_cmp(src, modulus) >= 0) { big_sub(tgt, src, modulus); src = tgt; }
ReduceSub ==
    /\ bpc = "reduce_sub"
    /\ IF big_cmp(SrcOf(bg), ModulusOf(bg.modulus)) >= 0
       THEN /\ bg' = StoreTgt(bg, big_sub(SrcOf(bg), ModulusOf(bg.modulus)))
            /\ bpc' = bpc
       ELSE /\ bpc' = "reduce_add"
            /\ bg' = bg
    /\ UNCHANGED notBG

\* one pass of
\* while ((int32_t)src->data[MSW] < 0) { big_add(tgt, src, modulus); src = tgt; }
ReduceAdd ==
    /\ bpc = "reduce_add"
    /\ IF Int32(SrcOf(bg)[MSW + 1]) < 0
       THEN /\ bg' = StoreTgt(bg, big_add(SrcOf(bg), ModulusOf(bg.modulus)))
            /\ bpc' = bpc
       ELSE /\ bpc' = "reduce_copy"
            /\ bg' = bg
    /\ UNCHANGED notBG

\* if (src != tgt) *tgt = *src; and the return
ReduceCopy ==
    /\ bpc = "reduce_copy"
    /\ bg' = IF bg.src = "a" /\ ~bg.aliased THEN StoreTgt(bg, SrcOf(bg)) ELSE bg
    /\ bpc' = "done"
    /\ UNCHANGED notBG

\* A caller divides num by den modulo the curve order:
\* big_divide(tgt, num, den, modulus);
\* u = *den; v = *modulus; x1 = *num; x2 = big_zero;
BigCallDivide ==
    /\ bpc = "idle"
    /\ \E num \in Numerators, den \in Denominators :
        bg' = [BgIdle EXCEPT !.call = "divide", !.a = num, !.b = den, !.modulus = "orderP",
                             !.u = den, !.v = orderP, !.x1 = num, !.x2 = big_zero]
    /\ bpc' = "divide_loop"
    /\ UNCHANGED notBG

\* A caller divides by zero: big_divide(tgt, num, &big_zero, modulus)
BigCallDivideZero ==
    /\ bpc = "idle"
    /\ \E num \in Numerators, m \in {"modulusP", "orderP"} :
        bg' = [BgIdle EXCEPT !.call = "divide", !.a = num, !.b = big_zero, !.modulus = m,
                             !.u = big_zero, !.v = ModulusOf(m), !.x1 = num, !.x2 = big_zero]
    /\ bpc' = "divide_loop"
    /\ UNCHANGED notBG

\* the passes of the first inner loop of big_divide that are followed; a u
\* other than zero has fewer low zero bits than a bigval_t has bits
MaxPasses == BIGLEN * WordBits

\* The outer loop of big_divide with a test for a zero u.
DivideLoop_ZeroChecked ==
    /\ bpc = "divide_loop"
    /\ IF ~big_is_zero(bg.u) /\ ~big_is_one(bg.u) /\ ~big_is_one(bg.v)
       THEN /\ bpc' = "divide_halve_u"
            /\ bg' = [bg EXCEPT !.passes = 0]
       ELSE /\ bg' = [bg EXCEPT !.arg = IF big_is_one(bg.u) THEN bg.x1 ELSE bg.x2,
                                !.tgt = <<>>, !.aliased = FALSE, !.src = "a"]
            /\ bpc' = "reduce_msw"
    /\ UNCHANGED notBG

\* while (!big_is_one(&u) && !big_is_one(&v)) ...
\* if (big_is_one(&u)) big_precise_reduce(tgt, &x1, modulus);
\* else big_precise_reduce(tgt, &x2, modulus);
DivideLoop ==
    /\ bpc = "divide_loop"
    /\ IF ~big_is_one(bg.u) /\ ~big_is_one(bg.v)
       THEN /\ bpc' = "divide_halve_u"
            /\ bg' = [bg EXCEPT !.passes = 0]
       ELSE /\ bg' = [bg EXCEPT !.arg = IF big_is_one(bg.u) THEN bg.x1 ELSE bg.x2,
                                !.tgt = <<>>, !.aliased = FALSE, !.src = "a"]
            /\ bpc' = "reduce_msw"
    /\ UNCHANGED notBG

\* The halving of u leaves x1 alone.
DivideHalveU_KeepX1 ==
    /\ bpc = "divide_halve_u"
    /\ IF ~big_is_odd(bg.u)
       THEN /\ bg.passes < MaxPasses
            /\ bg' = [bg EXCEPT !.u = big_halve(bg.u), !.passes = @ + 1]
            /\ bpc' = bpc
       ELSE /\ bpc' = "divide_halve_v"
            /\ bg' = bg
    /\ UNCHANGED notBG

\* one pass of
\* while (!big_is_odd(&u)) { big_halve(&u, &u);
\*     if (big_is_odd(&x1)) big_add(&x1, &x1, modulus);
\*     big_halve(&x1, &x1); }
\* passes counts the passes of this loop since it was entered, up to MaxPasses
DivideHalveU ==
    /\ bpc = "divide_halve_u"
    /\ IF ~big_is_odd(bg.u)
       THEN /\ bg.passes < MaxPasses
            /\ bg' = [bg EXCEPT !.u = big_halve(bg.u),
                                !.x1 = big_halve(IF big_is_odd(bg.x1)
                                                 THEN big_add(bg.x1, ModulusOf(bg.modulus))
                                                 ELSE bg.x1),
                                !.passes = @ + 1]
            /\ bpc' = bpc
       ELSE /\ bpc' = "divide_halve_v"
            /\ bg' = bg
    /\ UNCHANGED notBG

\* one pass of
\* while (!big_is_odd(&v)) { big_halve(&v, &v);
\*     if (big_is_odd(&x2)) big_add(&x2, &x2, modulus);
\*     big_halve(&x2, &x2); }
DivideHalveV ==
    /\ bpc = "divide_halve_v"
    /\ IF ~big_is_odd(bg.v)
       THEN /\ bg' = [bg EXCEPT !.v = big_halve(bg.v),
                                !.x2 = big_halve(IF big_is_odd(bg.x2)
                                                 THEN big_add(bg.x2, ModulusOf(bg.modulus))
                                                 ELSE bg.x2)]
            /\ bpc' = bpc
       ELSE /\ bpc' = "divide_subtract"
            /\ bg' = bg
    /\ UNCHANGED notBG

\* if (big_cmp(&u, &v) >= 0) { big_sub(&u, &u, &v); big_sub(&x1, &x1, &x2); }
\* else { big_sub(&v, &v, &u); big_sub(&x2, &x2, &x1); }
DivideSubtract ==
    /\ bpc = "divide_subtract"
    /\ bg' = IF big_cmp(bg.u, bg.v) >= 0
             THEN [bg EXCEPT !.u = big_sub(bg.u, bg.v), !.x1 = big_sub(bg.x1, bg.x2)]
             ELSE [bg EXCEPT !.v = big_sub(bg.v, bg.u), !.x2 = big_sub(bg.x2, bg.x1)]
    /\ bpc' = "divide_loop"
    /\ UNCHANGED notBG

NextBig ==
    \/ BigCallMpy
    \/ MpyZeroCheck
    \/ MpyMultiply
    \/ MpySquare
    \/ MpyResidual
    \/ MpyCorrect
    \/ MpyReduce
    \/ MpyCopyOut
    \/ MpyFinal
    \/ MpyThenReduce
    \/ BigCallReduce
    \/ ReduceMSW
    \/ ReduceSub
    \/ ReduceAdd
    \/ ReduceCopy
    \/ BigCallDivide
    \/ DivideLoop
    \/ DivideHalveU
    \/ DivideHalveV
    \/ DivideSubtract
    \/ BigAddP
    \/ BigSubP
    \/ BigHalveP

(***************************************************************************)
(*        POINT ARITHMETIC: toJacobian, toAffine, pointDouble, pointAdd     *)
(***************************************************************************)

\* A bigval_t that holds a field element is a number here, on the curve of
\* Curve: the number is congruent to the element modulo Curve.p and need not
\* be the residue.  2^256, above which the most significant word of a
\* bigval_t is not 0, is DigitRange, which is above Curve.p as 2^256 is above
\* modulusP.

\* big_approx_reduceP: subtracts the most significant word times the modulus
big_approx_reduce(v) == v - (Curve.p * (v \div DigitRange))

RECURSIVE big_mpy_reduce(_)
\* the reduction inside big_mpyP: down to a most significant word of 0
big_mpy_reduce(v) ==
    IF v >= 0 /\ v < DigitRange THEN v ELSE big_mpy_reduce(big_approx_reduce(v))

\* big_mpyP(tgt, a, b, MOD_MODULUS): a * b, approximately reduced
big_mpyP(a, b) == big_mpy_reduce(a * b)

\* big_sqrP(tgt, a)
big_sqrP(a) == big_mpyP(a, a)

\* big_addP(tgt, a, b): big_add, then big_approx_reduceP
big_addP(a, b) == big_approx_reduce(a + b)

\* big_subP(tgt, a, b): big_sub, then big_approx_reduceP
big_subP(a, b) == big_approx_reduce(a - b)

\* big_triple: a + a + a, not reduced
big_triple(a) == a + a + a

\* big_halveP: tgt with 2 * tgt congruent to a; an odd a has the modulus
\* added (big_adjustP(tgt, a, 1)) before big_halve shifts it right
big_halveP(a) == IF a % 2 = 1 THEN (a + Curve.p) \div 2 ELSE a \div 2

\* big_precise_reduce(tgt, a, &modulusP): the residue of a
big_precise_reduce(a) == a % Curve.p

\* big_divide(tgt, &big_one, den, &modulusP) for a den that is precisely
\* reduced and not 0: the residue tgt with tgt * den congruent to 1
big_divide_one(den) == FieldInv(den)

\* the bigval_t that are congruent to the field element r and have a most
\* significant word of 0
Representatives(r) == {v \in 0..(DigitRange - 1) : v % Curve.p = r}

affine_infinity == [x |-> 0, y |-> 0, infinity |-> TRUE]

jacobian_infinity == [X |-> 1, Y |-> 1, Z |-> 0]

\* jacobian_point_is_infinity(P): big_is_zero(&P->Z)
jacobian_point_is_infinity(P) == P.Z = 0

\* toJacobian: copies x and y, Z = big_one; the infinity flag of a is not read
toJacobian(a) == [X |-> a.x, Y |-> a.y, Z |-> 1]

\* toAffine
toAffine(a) ==
    IF a.Z = 0 THEN affine_infinity
    ELSE LET zinv     == big_divide_one(a.Z)
             zinvpwr  == big_sqrP(zinv)
             x        == big_mpyP(a.X, zinvpwr)
             zinvpwr3 == big_mpyP(zinvpwr, zinv)
             y        == big_mpyP(a.Y, zinvpwr3)
         IN  [x |-> big_precise_reduce(x), y |-> big_precise_reduce(y), infinity |-> FALSE]

\* pointDouble without big_precise_reduce of z3
pointDouble_UnreducedZ(P) ==
    IF jacobian_point_is_infinity(P) THEN jacobian_infinity
    ELSE LET x1   == P.X
             y1   == P.Y
             z1   == P.Z
             t1_1 == big_sqrP(z1)
             t2_1 == big_subP(x1, t1_1)
             t1_2 == big_addP(x1, t1_1)
             t2_2 == big_mpyP(t2_1, t1_2)
             t2_3 == big_triple(t2_2)
             y3_1 == big_addP(y1, y1)
             z3   == big_mpyP(y3_1, z1)
             y3_2 == big_sqrP(y3_1)
             t3   == big_mpyP(y3_2, x1)
             y3_3 == big_sqrP(y3_2)
             y3_4 == big_halveP(y3_3)
             x3   == big_sqrP(t2_3)
             t1_3 == big_addP(t3, t3)
             tgtX == big_subP(x3, t1_3)
             t1_4 == big_subP(t3, tgtX)
             t1_5 == big_mpyP(t1_4, t2_3)
             tgtY == big_subP(t1_5, y3_4)
         IN  [X |-> tgtX, Y |-> tgtY, Z |-> z3]

\* pointDouble(tgt, P).  Each name with a digit after an underscore is the
\* value a local has after one more assignment to it.  P->X, P->Y and P->Z
\* are last read before tgt->X, tgt->Y and tgt->Z are written, so a tgt
\* aliased to P gets the same point.
pointDouble(P) ==
    IF jacobian_point_is_infinity(P) THEN jacobian_infinity
    ELSE LET x1   == P.X
             y1   == P.Y
             z1   == P.Z
             t1_1 == big_sqrP(z1)
             t2_1 == big_subP(x1, t1_1)
             t1_2 == big_addP(x1, t1_1)
             t2_2 == big_mpyP(t2_1, t1_2)
             t2_3 == big_triple(t2_2)
             y3_1 == big_addP(y1, y1)
             z3   == big_mpyP(y3_1, z1)
             y3_2 == big_sqrP(y3_1)
             t3   == big_mpyP(y3_2, x1)
             y3_3 == big_sqrP(y3_2)
             y3_4 == big_halveP(y3_3)
             x3   == big_sqrP(t2_3)
             t1_3 == big_addP(t3, t3)
             tgtX == big_subP(x3, t1_3)
             t1_4 == big_subP(t3, tgtX)
             t1_5 == big_mpyP(t1_4, t2_3)
             tgtY == big_subP(t1_5, y3_4)
         IN  [X |-> tgtX, Y |-> tgtY, Z |-> big_precise_reduce(z3)]

\* pointAdd without big_precise_reduce before the zero tests
pointAdd_Unreduced(P, Q) ==
    IF Q.infinity THEN P
    ELSE IF jacobian_point_is_infinity(P) THEN toJacobian(Q)
    ELSE LET x1   == P.X
             y1   == P.Y
             z1   == P.Z
             x2   == Q.x
             y2   == Q.y
             t1_1 == big_sqrP(z1)
             t2_1 == big_mpyP(t1_1, z1)
             t1_2 == big_mpyP(t1_1, x2)
             t2_2 == big_mpyP(t2_1, y2)
             t1_3 == big_subP(t1_2, x1)
             t2_3 == big_subP(t2_2, y1)
             t1_4 == t1_3
             t2_4 == t2_3
             z3   == big_precise_reduce(big_mpyP(z1, t1_4))
             t3_1 == big_sqrP(t1_4)
             t4_1 == big_mpyP(t3_1, t1_4)
             t3_2 == big_mpyP(t3_1, x1)
             t1_5 == big_addP(t3_2, t3_2)
             x3_1 == big_sqrP(t2_3)
             x3_2 == big_subP(x3_1, t1_5)
             tgtX == big_subP(x3_2, t4_1)
             t3_3 == big_subP(t3_2, tgtX)
             t3_4 == big_mpyP(t3_3, t2_3)
             t4_2 == big_mpyP(t4_1, y1)
             tgtY == big_subP(t3_4, t4_2)
         IN  IF t1_4 = 0
             THEN IF t2_4 = 0 THEN pointDouble(toJacobian(Q)) ELSE jacobian_infinity
             ELSE [X |-> tgtX, Y |-> tgtY, Z |-> z3]

\* pointAdd(tgt, P, Q).  t1 is precisely reduced before it is tested, t2 only
\* when t1 is 0; the sum is computed from t1 as reduced and from t2 as
\* big_subP left it.
pointAdd(P, Q) ==
    IF Q.infinity THEN P
    ELSE IF jacobian_point_is_infinity(P) THEN toJacobian(Q)
    ELSE LET x1   == P.X
             y1   == P.Y
             z1   == P.Z
             x2   == Q.x
             y2   == Q.y
             t1_1 == big_sqrP(z1)
             t2_1 == big_mpyP(t1_1, z1)
             t1_2 == big_mpyP(t1_1, x2)
             t2_2 == big_mpyP(t2_1, y2)
             t1_3 == big_subP(t1_2, x1)
             t2_3 == big_subP(t2_2, y1)
             t1_4 == big_precise_reduce(t1_3)
             t2_4 == big_precise_reduce(t2_3)
             z3   == big_precise_reduce(big_mpyP(z1, t1_4))
             t3_1 == big_sqrP(t1_4)
             t4_1 == big_mpyP(t3_1, t1_4)
             t3_2 == big_mpyP(t3_1, x1)
             t1_5 == big_addP(t3_2, t3_2)
             x3_1 == big_sqrP(t2_3)
             x3_2 == big_subP(x3_1, t1_5)
             tgtX == big_subP(x3_2, t4_1)
             t3_3 == big_subP(t3_2, tgtX)
             t3_4 == big_mpyP(t3_3, t2_3)
             t4_2 == big_mpyP(t4_1, y1)
             tgtY == big_subP(t3_4, t4_2)
         IN  IF t1_4 = 0
             THEN IF t2_4 = 0 THEN pointDouble(toJacobian(Q)) ELSE jacobian_infinity
             ELSE [X |-> tgtX, Y |-> tgtY, Z |-> z3]

\* the affine points a caller can pass: the points of the curve, precisely
\* reduced, and the infinite point
AffinePoints ==
    {affine_infinity} \cup
    {[x |-> c[1], y |-> c[2], infinity |-> FALSE] :
        c \in {d \in (0..(Curve.p - 1)) \X (0..(Curve.p - 1)) : ec_oncurve([x |-> d[1], y |-> d[2]])}}

\* the Jacobian points that correspond to the affine point a (lines 1051-1056):
\* (Z^2 * x, Y = Z^3 * y, Z) for any non-zero Z, and a Z of 0 for the
\* infinite point.  Z is precisely reduced, as pointAdd and pointDouble
\* require of P->Z and ensure of tgt->Z; X and Y are as big_subP and big_mpyP
\* leave them.
JacobianForms(a) ==
    IF a.infinity
    THEN {[X |-> X, Y |-> Y, Z |-> 0] : X, Y \in 0..(Curve.p - 1)}
    ELSE UNION {{[X |-> X, Y |-> Y, Z |-> Z] :
                    X \in Representatives((Z * Z * a.x) % Curve.p),
                    Y \in Representatives((Z * Z * Z * a.y) % Curve.p)} :
                Z \in 1..(Curve.p - 1)}

\* a jacobian_point_t or affine_point_t that has not been written yet
NoPointYet == [X |-> Indeterminate, Y |-> Indeterminate, Z |-> Indeterminate]

PointIdle ==
    [P |-> NoPointYet, Q |-> affine_infinity,
     sum |-> NoPointYet, dbl |-> NoPointYet, sumAffine |-> NoPointYet, dblAffine |-> NoPointYet]

InitPoint ==
    /\ pnt = PointIdle
    /\ ppc = "idle"

\* a caller holds a Jacobian P (a form of some point of the curve) and an
\* affine Q
PointCall ==
    /\ ppc = "idle"
    /\ \E a \in AffinePoints, Q \in AffinePoints :
        \E P \in JacobianForms(a) :
            pnt' = [pnt EXCEPT !.P = P, !.Q = Q]
    /\ ppc' = "add"
    /\ UNCHANGED notPT

\* pointAdd(&sum, &P, &Q)
PointAddCall ==
    /\ ppc = "add"
    /\ pnt' = [pnt EXCEPT !.sum = pointAdd(pnt.P, pnt.Q)]
    /\ ppc' = "double"
    /\ UNCHANGED notPT

\* pointDouble(&dbl, &P)
PointDoubleCall ==
    /\ ppc = "double"
    /\ pnt' = [pnt EXCEPT !.dbl = pointDouble(pnt.P)]
    /\ ppc' = "affine"
    /\ UNCHANGED notPT

\* toAffine of both results
ToAffineCall ==
    /\ ppc = "affine"
    /\ pnt' = [pnt EXCEPT !.sumAffine = toAffine(pnt.sum), !.dblAffine = toAffine(pnt.dbl)]
    /\ ppc' = "done"
    /\ UNCHANGED notPT

NextPoint ==
    \/ PointCall
    \/ PointAddCall
    \/ PointDoubleCall
    \/ ToAffineCall

(***************************************************************************)
(*                               pointMpyP                                 *)
(***************************************************************************)

\* A scalar is a bigval_t as binary_to_bigval gives it: a two's-complement
\* number of BigLen words of WordBytes * ByteBits bits.

\* the bits of a uint32_t (32 in the source)
ScalarWordBits == WordBytes * ByteBits

\* BIGLEN * 32, the bits of a bigval_t
ScalarBits == BigLen * ScalarWordBits

\* the bigval_t a scalar can be
Scalars == (0 - (BigRange \div 2))..((BigRange \div 2) - 1)

\* k->data[w], the words being those of the two's-complement pattern of k
ScalarWord(k, w) == (((k + BigRange) % BigRange) \div (2 ^ (ScalarWordBits * w))) % (2 ^ ScalarWordBits)

\* big_get_2bits reading the low word whatever i is
big_get_2bits_LowWord(n, i) == (ScalarWord(n, 0) \div (2 ^ (i % ScalarWordBits))) % 4

\* big_get_2bits(n, i): bits i+1 and i of n
big_get_2bits(n, i) == (ScalarWord(n, i \div ScalarWordBits) \div (2 ^ (i % ScalarWordBits))) % 4

\* mpyset[mbits]; "none" is the null pointer of mpyset[0], the only entry
\* that is null
mpyset(m, mbits) ==
    IF mbits = 1 THEN m.P
    ELSE IF mbits = 2 THEN m.twoP
    ELSE IF mbits = 3 THEN m.threeP
    ELSE "none"

NoAffineYet == [x |-> Indeterminate, y |-> Indeterminate, infinity |-> FALSE]

PointMpyIdle ==
    [k |-> 0, P |-> affine_infinity, Q |-> NoPointYet, twoP |-> NoAffineYet, threeP |-> NoAffineYet,
     i |-> Indeterminate, tgt |-> NoAffineYet]

InitPointMpy ==
    /\ mpy = PointMpyIdle
    /\ mpc = "idle"

\* pointMpyP(&tgt, &k, &P) is called with any scalar and a point of the curve
PointMpyCall ==
    /\ mpc = "idle"
    /\ \E k \in Scalars, P \in AffinePoints :
        mpy' = [mpy EXCEPT !.k = k, !.P = P]
    /\ mpc' = "negative"
    /\ UNCHANGED notMP

\* lines 1244-1250: a negative k returns the infinite point; else Q = jacobian_infinity
PointMpyNegative ==
    /\ mpc = "negative"
    /\ IF mpy.k < 0
       THEN /\ mpy' = [mpy EXCEPT !.tgt = affine_infinity]
            /\ mpc' = "done"
       ELSE /\ mpy' = [mpy EXCEPT !.Q = jacobian_infinity]
            /\ mpc' = "zero"
    /\ UNCHANGED notMP

\* lines 1258-1261: a k of zero returns the infinite point
PointMpyZero ==
    /\ mpc = "zero"
    /\ IF mpy.k = 0 \/ mpy.k < 0
       THEN /\ mpy' = [mpy EXCEPT !.tgt = affine_infinity]
            /\ mpc' = "done"
       ELSE /\ mpc' = "table"
            /\ UNCHANGED mpy
    /\ UNCHANGED notMP

\* lines 1285-1293: 2P and 3P are computed and kept as affine points
PointMpyTable ==
    /\ mpc = "table"
    /\ LET Q1 == pointDouble(toJacobian(mpy.P))
           Q2 == pointAdd(Q1, mpy.P)
       IN  mpy' = [mpy EXCEPT !.Q = Q2, !.twoP = toAffine(Q1), !.threeP = toAffine(Q2),
                              !.i = ScalarBits - 2]
    /\ mpc' = "skip"
    /\ UNCHANGED notMP

\* lines 1296-1302: one pass of the loop that discards the high order zero
\* pairs; at the first pair that is not zero Q = jacobian_infinity
PointMpySkip ==
    /\ mpc = "skip"
    /\ IF mpy.i >= 0 /\ big_get_2bits(mpy.k, mpy.i) = 0
       THEN /\ mpy' = [mpy EXCEPT !.i = mpy.i - 2]
            /\ mpc' = "skip"
       ELSE /\ mpy' = [mpy EXCEPT !.Q = jacobian_infinity]
            /\ mpc' = "loop"
    /\ UNCHANGED notMP

\* PointMpyPair with one pointDouble for each pair of bits
PointMpyPair_DoubleOnce ==
    /\ mpc = "loop"
    /\ mpy.i >= 0
    /\ LET mbits == big_get_2bits(mpy.k, mpy.i)
           Q1    == pointDouble(mpy.Q)
           Q2    == Q1
           Q3    == IF mbits # 0 THEN pointAdd(Q2, mpyset(mpy, mbits)) ELSE Q2
       IN  mpy' = [mpy EXCEPT !.Q = Q3, !.i = mpy.i - 2]
    /\ mpc' = "loop"
    /\ UNCHANGED notMP

\* lines 1304-1311: one pass of the loop: Q is doubled twice and the table
\* entry of the pair of bits, if there is one, is added
PointMpyPair ==
    /\ mpc = "loop"
    /\ mpy.i >= 0
    /\ LET mbits == big_get_2bits(mpy.k, mpy.i)
           Q1    == pointDouble(mpy.Q)
           Q2    == pointDouble(Q1)
           Q3    == IF mbits # 0 THEN pointAdd(Q2, mpyset(mpy, mbits)) ELSE Q2
       IN  mpy' = [mpy EXCEPT !.Q = Q3, !.i = mpy.i - 2]
    /\ mpc' = "loop"
    /\ UNCHANGED notMP

\* line 1315: toAffine(tgt, &Q)
PointMpyAffine ==
    /\ mpc = "loop"
    /\ mpy.i < 0
    /\ mpy' = [mpy EXCEPT !.tgt = toAffine(mpy.Q)]
    /\ mpc' = "done"
    /\ UNCHANGED notMP

NextPointMpy ==
    \/ PointMpyCall
    \/ PointMpyNegative
    \/ PointMpyZero
    \/ PointMpyTable
    \/ PointMpySkip
    \/ PointMpyPair
    \/ PointMpyAffine

(***************************************************************************)
(*        bigval_to_binary and binary_to_bigval, applied to anything       *)
(***************************************************************************)

\* the lengths a caller passes: shorter than a bigval_t, as long, and longer
MaxBinaryLen == BigBytes + 2

RECURSIVE ByteArraysOf(_)
\* the byte arrays of length n
ByteArraysOf(n) ==
    IF n = 0 THEN {<<>>}
    ELSE {Append(s, b) : s \in ByteArraysOf(n - 1), b \in 0..(ByteRange - 1)}

\* the byte arrays longer than a bigval_t
LongBinaries == UNION {ByteArraysOf(n) : n \in (BigBytes + 1)..MaxBinaryLen}

AppliedIdle == [f |-> "none", x |-> 0, n |-> 0, bytes |-> <<>>, src |-> <<>>, tgt |-> 0,
                a |-> affine_infinity, J |-> NoPointYet, back |-> NoAffineYet]

InitApplied ==
    /\ app = AppliedIdle
    /\ apc = "idle"

\* a caller holds a bigval_t and a length
BinaryCall ==
    /\ apc = "idle"
    /\ \E x \in Scalars, n \in 0..MaxBinaryLen :
        app' = [app EXCEPT !.f = "to_binary", !.x = x, !.n = n]
    /\ apc' = "to_binary"
    /\ UNCHANGED notAP

\* bigval_to_binary(&x, bytes, n)
BinaryWrite ==
    /\ apc = "to_binary"
    /\ app' = [app EXCEPT !.bytes = bigval_to_binary(app.x, app.n)]
    /\ apc' = "to_bigval"
    /\ UNCHANGED notAP

\* binary_to_bigval(bytes, &tgt, n) on the bytes just written
BinaryRead ==
    /\ apc = "to_bigval"
    /\ app' = [app EXCEPT !.tgt = binary_to_bigval(app.bytes)]
    /\ apc' = "done"
    /\ UNCHANGED notAP

\* binary_to_bigval(src, &tgt, srclen) on an array longer than a bigval_t
BinaryImport ==
    /\ apc = "idle"
    /\ \E src \in LongBinaries :
        app' = [app EXCEPT !.f = "import", !.src = src, !.n = Len(src), !.tgt = binary_to_bigval(src)]
    /\ apc' = "done"
    /\ UNCHANGED notAP

NextBinary ==
    \/ BinaryCall
    \/ BinaryWrite
    \/ BinaryRead
    \/ BinaryImport

(***************************************************************************)
(*              toJacobian and toAffine, applied to anything               *)
(***************************************************************************)

\* the affine points with precisely reduced coordinates, on the curve or not,
\* and the infinite point
ReducedAffines ==
    {affine_infinity} \cup
    {[x |-> x, y |-> y, infinity |-> FALSE] : x, y \in 0..(Curve.p - 1)}

\* the Jacobian points with a Z of 0
ZeroZJacobians == {[X |-> X, Y |-> Y, Z |-> 0] : X, Y \in 0..(DigitRange - 1)}

\* a caller holds an affine point
LiftCall ==
    /\ apc = "idle"
    /\ \E a \in ReducedAffines :
        app' = [app EXCEPT !.f = "toJacobian", !.a = a]
    /\ apc' = "lift"
    /\ UNCHANGED notAP

\* toJacobian(&J, &a)
LiftToJacobian ==
    /\ apc = "lift"
    /\ app' = [app EXCEPT !.J = toJacobian(app.a)]
    /\ apc' = "lower"
    /\ UNCHANGED notAP

\* a caller holds a Jacobian point with a Z of 0
LowerCall ==
    /\ apc = "idle"
    /\ \E J \in ZeroZJacobians :
        app' = [app EXCEPT !.f = "toAffine", !.J = J]
    /\ apc' = "lower"
    /\ UNCHANGED notAP

\* toAffine(&back, &J)
LowerToAffine ==
    /\ apc = "lower"
    /\ app' = [app EXCEPT !.back = toAffine(app.J)]
    /\ apc' = "done"
    /\ UNCHANGED notAP

NextAffine ==
    \/ LiftCall
    \/ LiftToJacobian
    \/ LowerCall
    \/ LowerToAffine

(***************************************************************************)
(*                          The specifications                             *)
(***************************************************************************)

\* a rule table and, beside it, a key agreement session nobody has started
Init ==
    /\ disjoint \in BOOLEAN
    /\ InitRT
    /\ InitEC
    /\ InitSP
    /\ InitRD
    /\ InitBig
    /\ InitPoint
    /\ InitPointMpy
    /\ InitApplied
    /\ sha = NoSha

\* a key agreement session, beside a rule table nobody calls
InitSession ==
    /\ disjoint = FALSE
    /\ InitRT
    /\ InitEC
    /\ InitSP
    /\ InitRD
    /\ InitBig
    /\ InitPoint
    /\ InitPointMpy
    /\ InitApplied
    /\ sha = NoSha

\* two parties about to agree on a key from a password, with any of the
\* hash functions
InitSPEKE ==
    /\ disjoint = FALSE
    /\ InitRT
    /\ InitEC
    /\ InitSP
    /\ InitRD
    /\ InitBig
    /\ InitPoint
    /\ InitPointMpy
    /\ InitApplied
    /\ sha \in [Passwords -> SpekeDigests]

\* the rule table under concurrent callers
SpecRT == Init /\ [][NextRT]_vars

\* a key agreement session between two parties
SpecECDH == InitSession /\ [][NextEC]_vars

\* ECDH_derive_pt on arbitrary arguments
SpecDerive == InitSession /\ [][NextDerive]_vars

\* every exit path of ECDH_generate and ECDH_derive_pt
SpecExits == InitSession /\ [][NextExits]_vars

\* two parties generate SPEKE key pairs and derive the shared secret
SpecSPEKE == InitSPEKE /\ [][NextSPEKE]_vars

\* calls of ec_REDP1, each of which is scheduled until it returns
SpecREDP == InitSession /\ [][NextREDP]_vars /\ WF_vars(NextREDP)

\* calls of big_mpyP, big_precise_reduce and big_divide, each running to its end
SpecBig == InitSession /\ [][NextBig]_vars /\ WF_vars(NextBig)

\* big_divide alone, a zero denominator among its arguments
NextDivide ==
    \/ BigCallDivide
    \/ BigCallDivideZero
    \/ DivideLoop
    \/ DivideHalveU
    \/ DivideHalveV
    \/ DivideSubtract
    \/ ReduceMSW
    \/ ReduceSub
    \/ ReduceAdd
    \/ ReduceCopy

SpecDivide == InitSession /\ [][NextDivide]_vars

\* calls of pointAdd and pointDouble on the same Jacobian point, then toAffine
SpecPoint == InitSession /\ [][NextPoint]_vars

\* calls of pointMpyP
SpecPointMpy == InitSession /\ [][NextPointMpy]_vars

\* one caller, who either adds and doubles one point or calls pointMpyP
NextPoints ==
    \/ mpc = "idle" /\ PointCall
    \/ PointAddCall
    \/ PointDoubleCall
    \/ ToAffineCall
    \/ ppc = "idle" /\ PointMpyCall
    \/ PointMpyNegative
    \/ PointMpyZero
    \/ PointMpyTable
    \/ PointMpySkip
    \/ PointMpyPair
    \/ PointMpyAffine

SpecPoints == InitSession /\ [][NextPoints]_vars

\* bigval_to_binary and binary_to_bigval on any bigval_t, length and array
SpecBinary == InitSession /\ [][NextBinary]_vars

SpecAffine == InitSession /\ [][NextAffine]_vars

(***************************************************************************)
(*                     RULE TABLE: the properties                          *)
(***************************************************************************)

\* a thread is between taking the mutex and releasing it
InCall(t) == pc[t] \in {"locked", "writing", "iterating", "unlock"}

\* a thread has finished the body of the named call and still holds the mutex
Finished(t, name) == pc[t] = "unlock" /\ op[t].name = name

\* the entries of the other endpoints, in order
Others(tbl, e) == SelectSeq(tbl, LAMBDA x : x.ep # e)

\* how many stored entries equal (e, rule)
Count(tbl, e, rule) == Cardinality({i \in 1..Len(tbl) : tbl[i].ep = e /\ tbl[i].rule = rule})

\* C1: OkToSend(msg, endpoint) returns true exactly when at least one rule
\* stored for that endpoint matches the message; it is false when the endpoint
\* has no rule or none matches, whatever is stored for other endpoints.
C1_OkToSendExact ==
    \A t \in Threads :
        Finished(t, "OkToSend") =>
            (result[t] <=> \E i \in 1..Len(rules) :
                               /\ rules[i].ep = op[t].ep
                               /\ IsMatch(rules[i].rule, op[t].msg))

\* OkToSend has denied a message that a rule of another endpoint matches,
\* while the endpoint itself holds a rule that does not match.
C1_Witness ==
    \E t \in Threads :
        /\ Finished(t, "OkToSend")
        /\ result[t] = FALSE
        /\ \E i \in 1..Len(rules) : rules[i].ep = op[t].ep
        /\ \E i \in 1..Len(rules) : rules[i].ep # op[t].ep /\ IsMatch(rules[i].rule, op[t].msg)

\* C2: after RemoveAllRules(E) no rule of E remains, OkToSend(msg, E) is false
\* for every message, and the other endpoints' rules are what they were;
\* only an AddRule(E, ...) gives E a rule again.
C2_RemoveAllState ==
    \A t \in Threads :
        Finished(t, "RemoveAllRules") =>
            /\ \A i \in 1..Len(rules) : rules[i].ep # op[t].ep
            /\ \A m \in Messages : ~OkToSend(rules, m, op[t].ep)
            /\ Others(rules, op[t].ep) = Others(local[t], op[t].ep)

C2_OnlyAddRuleRefills ==
    \A e \in Endpoints :
        (Count(rules, e, RuleFoo) + Count(rules, e, RuleBarOpen) = 0
         /\ Count(rules', e, RuleFoo) + Count(rules', e, RuleBarOpen) > 0)
        => \E t \in Threads : pc[t] = "writing" /\ op[t].name = "AddRule" /\ op[t].ep = e

C2_RemoveAllRules == [](C2_RemoveAllState) /\ [][C2_OnlyAddRuleRefills]_vars

\* RemoveAllRules(E) has emptied an endpoint that had rules, and the other
\* endpoint still has its rule.
C2_Witness ==
    \E t \in Threads :
        /\ Finished(t, "RemoveAllRules")
        /\ \E i \in 1..Len(local[t]) : local[t][i].ep = op[t].ep
        /\ \E i \in 1..Len(rules) : rules[i].ep # op[t].ep

\* C3: the table is multi-valued (AddRule of a stored pair stores one more
\* copy), RemoveRule removes exactly one entry equal to (endpoint, rule) when
\* one exists and returns ER_OK; when none exists it returns
\* ER_BUS_MATCH_RULE_NOT_FOUND and leaves the table as it was.
C3_RemoveExactlyOne ==
    \A t \in Threads :
        /\ Finished(t, "AddRule") =>
              /\ Len(rules) = Len(local[t]) + 1
              /\ Count(rules, op[t].ep, op[t].rule) = Count(local[t], op[t].ep, op[t].rule) + 1
        /\ Finished(t, "RemoveRule") =>
              IF Count(local[t], op[t].ep, op[t].rule) > 0
              THEN /\ result[t] = "ER_OK"
                   /\ Len(rules) = Len(local[t]) - 1
                   /\ Count(rules, op[t].ep, op[t].rule) = Count(local[t], op[t].ep, op[t].rule) - 1
                   /\ Others(rules, op[t].ep) = Others(local[t], op[t].ep)
              ELSE /\ result[t] = "ER_BUS_MATCH_RULE_NOT_FOUND"
                   /\ rules = local[t]

\* The same rule was stored twice for the endpoint; RemoveRule has removed
\* one copy and one is left.
C3_Witness ==
    \E t \in Threads :
        /\ Finished(t, "RemoveRule")
        /\ Count(local[t], op[t].ep, op[t].rule) = 2
        /\ Count(rules, op[t].ep, op[t].rule) = 1

\* C4: with every thread calling on its own endpoint, each call returns what
\* the single-threaded reference execution (the calls run one at a time, in
\* the order they took the lock, which respects each thread's program order)
\* returns, and whenever no call is in progress the table equals the
\* reference table: nothing is lost, duplicated or moved to another endpoint.
C4_Linearizable ==
    disjoint =>
        /\ \A t \in Threads : pc[t] = "unlock" => result[t] = expect[t]
        /\ (\A t \in Threads : ~InCall(t)) => rules = ref

\* Disjoint mode: both endpoints hold rules, one thread has finished a call
\* while the other thread's call is waiting for the lock.
C4_Witness ==
    /\ disjoint
    /\ \A e \in Endpoints : \E i \in 1..Len(rules) : rules[i].ep = e
    /\ \E t, u \in Threads : pc[t] = "unlock" /\ pc[u] = "called"

\* C5: every operation holds the single mutex from before its first access to
\* the multimap until after its last and has released it when it returns; the
\* multimap changes only in a step of the thread that holds the mutex, and a
\* traversal under Lock() sees the table it started on.
C5_HolderOnly ==
    \A t \in Threads :
        /\ InCall(t) => holder = t
        /\ pc[t] \in {"idle", "called"} => holder # t
        /\ pc[t] = "iterating" => rules = local[t]

C5_WriteUnderLock ==
    rules' # rules => holder \in Threads /\ pc[holder] = "writing" /\ holder' = holder

C5_SingleMutex == [](C5_HolderOnly) /\ [][C5_WriteUnderLock]_vars

\* A traversal is under way under Lock() while the other thread's AddRule waits.
C5_Witness ==
    \E t, u \in Threads :
        /\ pc[t] = "iterating" /\ holder = t /\ it[t] > 1
        /\ pc[u] = "called" /\ op[u].name = "AddRule"


(***************************************************************************)
(*                        ECDH: the properties                             *)
(***************************************************************************)

\* the ecpoint_t that ECDH_derive_pt's conversions make of a received point
Converted(Q) == [x |-> bigval_to_digit256(Q.x).dst, y |-> bigval_to_digit256(Q.y).dst]

\* a received point that ECDH_derive_pt must refuse: a coordinate that cannot
\* be converted, the identity, or a point that is not on the curve
FailsValidation(Q) ==
    \/ Q.x < 0
    \/ Q.y < 0
    \/ Converted(Q) = ZeroPoint
    \/ ~ec_oncurve(Converted(Q))

\* a call of ECDH_derive_pt by p has returned
Derived(p) == fn = "none" /\ caller = p /\ derRet[p] # "none"

\* a call of ECDH_generate by p has returned
Generated(p) == fn = "none" /\ caller = p /\ derRet[p] = "none" /\ genRet[p] # "none"

\* C6: ECDH_derive_pt reaches the scalar multiplication only with a peer
\* point that was converted and passed ecpoint_validation, and a call whose
\* peer point is the identity, off the curve or not convertible returns
\* false without having multiplied.
C6_ValidateBeforeUse ==
    /\ \/ fn = "derive" /\ (fpc \in {"mul", "check"} \/ didMul)
       \/ \E p \in Parties : Derived(p) /\ didMul
       =>
          /\ ~FailsValidation(used[caller].Q)
          /\ der.theirPublic = Converted(used[caller].Q)
          /\ ecpoint_validation(der.theirPublic)
    /\ \A p \in Parties :
          Derived(p) /\ FailsValidation(used[p].Q) => derRet[p] = "false" /\ ~didMul

\* a call with a private key in range and an off-curve point has returned false
\* without multiplying
C6_Witness ==
    /\ Derived("alice")
    /\ used["alice"].k = 1
    /\ used["alice"].Q.x = 1 /\ used["alice"].Q.y = 1
    /\ derRet["alice"] = "false"
    /\ ~didMul

KeyPairsInRange ==
    \A p \in Parties :
        /\ genRet[p] = "ER_OK"
        /\ priv[p] \in 1..(Curve.order - 1)

C9_RngErrorPropagates ==
    rngErr # "none" =>
        /\ ~didMul
        /\ priv[caller] = entry.k
        /\ pub[caller] = entry.Q
        /\ fn = "generate" => fpc = "exit" /\ gen.status = rngErr
        /\ fn = "none" => genRet[caller] = rngErr

\* ECDH_generate has returned the random source's error to a caller whose
\* buffers held the output of an earlier call, and they still hold it
C9_Witness ==
    /\ Generated("alice")
    /\ rngErr \in RngErrors
    /\ genRet["alice"] = rngErr
    /\ entry.k # NoScalar
    /\ priv["alice"] = entry.k
    /\ pub["alice"] = entry.Q

\* C10: a call of ECDH_generate that returns ER_OK has stored k with
\* 1 <= k < order and P1 = k * G, never k = 0 and never the identity as P1.
C10_KeyInRange ==
    \A p \in Parties :
        genRet[p] = "ER_OK" =>
            /\ priv[p] >= 1 /\ priv[p] < Curve.order
            /\ pub[p].x = EcMul(priv[p], ec_get_generator).x
            /\ pub[p].y = EcMul(priv[p], ec_get_generator).y
            /\ ~pub[p].infinity
            /\ ~ec_is_infinity(pub[p])

\* ECDH_generate has returned ER_OK with k = 0 and the identity's coordinates
\* in P1
C10_Witness ==
    /\ Generated("alice")
    /\ genRet["alice"] = "ER_OK"
    /\ priv["alice"] = 0
    /\ ec_is_infinity(pub["alice"])
    /\ ~pub["alice"].infinity

\* C11: when ECDH_generate has returned, on whichever path, r, Q.x and Q.y
\* are zero, and when ECDH_derive_pt has returned, ourPrivate, sharedSecret.x
\* and sharedSecret.y are zero.
C11_LocalsZeroed ==
    /\ (fn # "generate" /\ \E p \in Parties : genRet[p] # "none") =>
          gen.r = 0 /\ gen.Q = ZeroPoint
    /\ (fn # "derive" /\ \E p \in Parties : derRet[p] # "none") =>
          der.ourPrivate = 0 /\ der.sharedSecret = ZeroPoint

\* ECDH_derive_pt has returned after a failed conversion and ECDH_generate
\* after a failed draw, and the locals of both are zero
C11_Witness ==
    /\ Derived("alice")
    /\ used["alice"].Q.x < 0
    /\ derRet["alice"] = "false"
    /\ der.ourPrivate = 0 /\ der.sharedSecret = ZeroPoint
    /\ genRet["alice"] \in RngErrors
    /\ gen.r = 0 /\ gen.Q = ZeroPoint

(***************************************************************************)
(*                        SPEKE: the properties                            *)
(***************************************************************************)

\* a call of Crypto_ECC_GenerateSPEKEKeyPair by p has returned, and nothing
\* was called since
KeyPairReturned(p) == fn = "none" /\ kpc = "none" /\ caller = p /\ kpRet[p] # "none" /\ ssRet[p] = "none"

\* a call of Crypto_ECC_GenerateSharedSecret by p has returned, and nothing
\* was called since
SecretReturned(p) == fn = "none" /\ kpc = "none" /\ caller = p /\ ssRet[p] # "none"

\* the arguments Crypto_ECC_GenerateSPEKEKeyPair must refuse
IllegalParameters(a) ==
    a.pw = "NULL" \/ a.pwLen = 0 \/ a.publicKey = "NULL" \/ a.privateKey = "NULL"

\* C12: when Crypto_ECC_GenerateSPEKEKeyPair has returned, priv, privTemp
\* and D are zero wherever they were written, and when
\* Crypto_ECC_GenerateSharedSecret has returned, pk and localSecret are zero.
C12_BuffersZeroed ==
    \A p \in Parties :
        /\ KeyPairReturned(p) =>
              /\ kp.priv \in {Indeterminate, 0}
              /\ kp.privTemp \in {Indeterminate, 0}
              /\ kp.D \in {<<>>, ClearBytes(KeyBytes)}
        /\ SecretReturned(p) =>
              /\ ss.pk = 0
              /\ secret[p].x = 0 /\ secret[p].y = 0

\* Crypto_ECC_GenerateSharedSecret has returned ER_OK and left the private
\* key in pk and the shared point in localSecret, after a call of
\* Crypto_ECC_GenerateSPEKEKeyPair that left the private key in priv and its
\* high bytes in privTemp
C12_Witness ==
    /\ SecretReturned("alice")
    /\ ssRet["alice"] = "ER_OK"
    /\ ss.pk > 0
    /\ secret["alice"].x > 0
    /\ kp.priv > 0
    /\ kp.privTemp > 0
    /\ kp.D = ClearBytes(KeyBytes)

\* C15: a call of Crypto_ECC_GenerateSPEKEKeyPair with a NULL password, a
\* password length of 0 or a NULL output key draws no random bytes and
\* imports nothing, and returns ER_CRYPTO_ILLEGAL_PARAMETERS with the output
\* keys as they were.
C15_IllegalParameters ==
    /\ fn = "keypair" /\ IllegalParameters(args) =>
          ~drew /\ ~imported /\ keys[caller] = NoKeys
    /\ \A p \in Parties :
          KeyPairReturned(p) /\ IllegalParameters(args) =>
              /\ kpRet[p] = "ER_CRYPTO_ILLEGAL_PARAMETERS"
              /\ ~drew /\ ~imported
              /\ keys[p] = NoKeys

\* a call with both output keys and a password of length 0 has returned
\* ER_CRYPTO_ILLEGAL_PARAMETERS
C15_Witness ==
    /\ KeyPairReturned("alice")
    /\ args.pw \in Passwords /\ args.pwLen = 0
    /\ args.publicKey = "key" /\ args.privateKey = "key"
    /\ kpRet["alice"] = "ER_CRYPTO_ILLEGAL_PARAMETERS"
    /\ ~drew /\ ~imported

\* Q1 + H(pw || clientGUID || serviceGUID) * Q2 for the password w
SessionBase(w) == EcAdd(REDP_Q1, EcMul(fpimport_p256(sha[w]), REDP_Q2))

\* the point an imported key pair holds as its public key
PublicPoint(key) == [x |-> binary_to_bigval(key.X), y |-> binary_to_bigval(key.Y)]

\* the byte arrays Crypto_ECC_GenerateSharedSecret writes for a point
SecretBytes(P) ==
    [x |-> U32ArrayToU8BeArray(P.x), y |-> U32ArrayToU8BeArray(P.y), infinity |-> FALSE]

\* both parties have key pairs for the same password and both calls of
\* Crypto_ECC_GenerateSharedSecret returned ER_OK
BothDerived ==
    /\ fn = "none" /\ kpc = "none"
    /\ \A p \in Parties : kpRet[p] = "ER_OK" /\ ssRet[p] = "ER_OK"
    /\ keys["alice"].pw = keys["bob"].pw

\* C16: the base point a call of Crypto_ECC_GenerateSPEKEKeyPair generates
\* against is Q1 + H(pw || clientGUID || serviceGUID) * Q2, whoever calls;
\* the public key it returns is the private scalar times that point; and
\* when two parties with the same password each derive the shared secret
\* from the other's public key, both get the point a * b * B.
C16_Agreement ==
    /\ fn = "keypair" /\ kpc \in {"draw", "mul"} => inr.B = SessionBase(args.pw)
    /\ \A p \in Parties :
          kpRet[p] = "ER_OK" =>
              PublicPoint(keys[p]) =
                  EcMul(binary_to_bigval(keys[p].D), SessionBase(keys[p].pw))
    /\ BothDerived =>
          /\ ssOut["alice"] = ssOut["bob"]
          /\ ssOut["alice"] =
                SecretBytes(EcMul(binary_to_bigval(keys["alice"].D) * binary_to_bigval(keys["bob"].D),
                                  SessionBase(keys["alice"].pw)))

\* two parties with the same password, different private scalars and
\* different public keys have derived the same shared point, which is not
\* the identity
C16_Witness ==
    /\ BothDerived
    /\ keys["alice"].D # keys["bob"].D
    /\ PublicPoint(keys["alice"]) # PublicPoint(keys["bob"])
    /\ SessionBase(keys["alice"].pw) \notin {REDP_Q1, ZeroPoint}
    /\ ssOut["alice"] = ssOut["bob"]
    /\ ssOut["alice"] # SecretBytes(ZeroPoint)

(***************************************************************************)
(*                       ec_REDP1: the properties                          *)
(***************************************************************************)

\* the byte array of DigestLen bytes of 0xFF
AllOnes == [j \in 1..DigestLen |-> ByteRange - 1]

\* C13: after an increment the digest is the digest before it plus one, as
\* a big-endian unsigned integer of DigestLen bytes, and the increment ends
\* the call with ER_CRYPTO_ERROR exactly when the digest before it was
\* all 0xFF.
C13_BigEndianCounter ==
    rd.before # <<>> =>
        /\ BytesValue(rd.digest_i1) = (BytesValue(rd.before) + 1) % (ByteRange ^ DigestLen)
        /\ rd.carry # 0 <=> rd.before = AllOnes

\* ec_REDP1 has returned ER_CRYPTO_ERROR from the increment of a digest that
\* was not all 0xFF: its first byte was 0x00 and no carry reached it
C13_Witness ==
    /\ rpc = "none"
    /\ rd.status = "ER_CRYPTO_ERROR"
    /\ rd.carry = 1
    /\ rd.before # AllOnes
    /\ rd.before[1] = 0
    /\ rd.digest_i1[1] = 0

\* the y coordinate ec_REDP1 is to give for the x and the digest it ended with
ExpectedBeta ==
    LET root == fpsqrt_p256(CurveRHS(rd.x))
    IN  IF rd.digest_i1[DigestLen] % 2 = 1 THEN fpneg_p256(root) ELSE root

\* a call of ec_REDP1 that has returned ER_OK has stored Q = (x, beta) with
\* x imported from the hash of the current digest, beta a square root of
\* x^3 + a*x + b, negated iff the low bit of the current digest is 1, and Q
\* valid; a call that has returned anything else has returned an error status
C14_ReturnsValidated ==
    rpc = "none" /\ rd.status # "none" =>
        IF rd.status = "ER_OK"
        THEN /\ rd.hashed = rd.digest_i1
             /\ rd.x = fpimport_p256(rd.bytes_O3)
             /\ rd.Q.x = rd.x
             /\ (rd.Q.y * rd.Q.y) % Curve.p = CurveRHS(rd.x)
             /\ rd.Q.y = ExpectedBeta
             /\ ecpoint_validation(rd.Q)
        ELSE rd.status = "ER_CRYPTO_ERROR"

\* every call of ec_REDP1 returns
C14_Terminates == (rpc # "none") ~> (rpc = "none")

\* C14: ec_REDP1 terminates on every input, and returns either ER_OK with
\* the validated point (x, beta) of the current digest or an error status.
C14_REDP1 == []C14_ReturnsValidated /\ C14_Terminates

\* ec_REDP1 has returned ER_OK after a retry, with beta negated
C14_Witness ==
    /\ rpc = "none"
    /\ rd.status = "ER_OK"
    /\ rd.before # <<>>
    /\ rd.mu = 1
    /\ rd.Q.y = fpneg_p256(fpsqrt_p256(CurveRHS(rd.x)))
    /\ rd.Q.y # fpsqrt_p256(CurveRHS(rd.x))


(***************************************************************************)
(*         big_mpyP, big_precise_reduce, big_divide: the properties        *)
(***************************************************************************)

\* the call of the named function has returned
BigReturned(f) == bg.call = f /\ bpc = "done"

\* big_mpyP is between its sign correction and its copy to tgt
MpyReducing == bg.call = "mpy" /\ bpc \in {"mpy_reduce", "mpy_copy"}

\* C17: big_mpyP(a, b, MOD_MODULUS) returns a value congruent to a * b
\* modulo the curve modulus (zero itself when an operand is zero), without
\* overflowing its 64-bit accumulators, and big_precise_reduce of it is
\* (a * b) mod p as the reference computes it.
C17_MultiplyReduce ==
    /\ bg.call = "mpy" /\ bpc = "mpy_return" =>
          /\ Residue(bg.product, modulusP) = ProductResidue(bg.a, bg.b, modulusP)
          /\ big_is_zero(bg.a) \/ big_is_zero(bg.b) => bg.product = big_zero
    /\ MpyReducing => \A n \in 1..(2 * BIGLEN) : InInt64(bg.w[n])
    /\ BigReturned("mpy") => NatOf(bg.tgt) = ProductResidue(bg.a, bg.b, modulusP)

\* the product of a negative and a positive operand, two different
\* objects, was multiplied and reduced, and is not zero
C17_Witness ==
    /\ BigReturned("mpy")
    /\ ~bg.same
    /\ big_is_negative(bg.a) /\ ~big_is_negative(bg.b) /\ ~big_is_zero(bg.b)
    /\ NatOf(bg.tgt) = ProductResidue(bg.a, bg.b, modulusP)
    /\ ~big_is_zero(bg.tgt)

\* the square of a negative operand went through the squaring loop
SquaredNegative ==
    /\ BigReturned("mpy")
    /\ bg.same /\ big_is_negative(bg.a)
    /\ NatOf(bg.tgt) = ProductResidue(bg.a, bg.a, modulusP)

\* big_precise_reduce has returned tgt in [0, modulus), congruent to a
ReducedPrecisely ==
    /\ PreciselyReduced(bg.tgt, ModulusOf(bg.modulus))
    /\ NatOf(bg.tgt) = Residue(bg.a, ModulusOf(bg.modulus))

\* every call of big_precise_reduce returns
C18_Terminates == (bg.call = "reduce") ~> (bpc = "done")

\* C18: big_precise_reduce(tgt, a, modulus) returns, for the curve modulus
\* and the curve order, with tgt aliased to a or not, and tgt is then in
\* [0, modulus) and congruent to a.
C18_PreciseReduce ==
    /\ [](BigReturned("reduce") => ReducedPrecisely)
    /\ C18_Terminates

\* a negative value with a large most significant word was reduced in
\* place modulo the curve order
C18_Witness ==
    /\ BigReturned("reduce")
    /\ bg.aliased /\ bg.modulus = "orderP"
    /\ Int32(bg.a[MSW + 1]) < 0 - 1
    /\ bg.arg = bg.tgt
    /\ ReducedPrecisely

\* the same, not in place and modulo the curve modulus
ReducedElsewhere ==
    /\ BigReturned("reduce")
    /\ ~bg.aliased /\ bg.modulus = "modulusP"
    /\ Int32(bg.a[MSW + 1]) > 1
    /\ bg.arg = bg.a
    /\ ReducedPrecisely

\* big_divide is in its loop
Dividing ==
    /\ bg.call = "divide"
    /\ bpc \in {"divide_loop", "divide_halve_u", "divide_halve_v", "divide_subtract"}

\* den * x1 = num * u and den * x2 = num * v modulo the modulus
DivideInvariant ==
    LET m == ModulusOf(bg.modulus)
    IN  /\ ProductResidue(bg.b, bg.x1, m) = ProductResidue(bg.a, bg.u, m)
        /\ ProductResidue(bg.b, bg.x2, m) = ProductResidue(bg.a, bg.v, m)

\* tgt is precisely reduced and tgt * den = num modulo the modulus
Divided ==
    LET m == ModulusOf(bg.modulus)
    IN  /\ PreciselyReduced(bg.tgt, m)
        /\ ProductResidue(bg.tgt, bg.b, m) = Residue(bg.a, m)

\* every call of big_divide returns
C19_Terminates == (bg.call = "divide") ~> (bpc = "done")

\* C19: for the (prime) curve order, a precisely reduced numerator and a
\* non-zero precisely reduced denominator, big_divide keeps den * x1
\* congruent to num * u and den * x2 to num * v, returns, and returns tgt
\* precisely reduced with tgt * den congruent to num.
C19_Divide ==
    /\ [](Dividing => DivideInvariant)
    /\ [](BigReturned("divide") => Divided)
    /\ C19_Terminates

\* a division of a numerator other than 0 and 1 by a denominator other
\* than 1 has returned the quotient
C19_Witness ==
    /\ BigReturned("divide")
    /\ ~big_is_zero(bg.a) /\ ~big_is_one(bg.a) /\ ~big_is_one(bg.b)
    /\ ~big_is_one(bg.tgt)
    /\ Divided

(***************************************************************************)
(*               pointAdd and pointDouble: the properties                  *)
(***************************************************************************)

\* the calls have returned and P was a Jacobian form of the affine Q
AddedToItself == ppc = "done" /\ pnt.P \in JacobianForms(pnt.Q)

\* the affine point 2 * a by the group law, the identity being the infinite point
DoubleOf(a) ==
    IF a.infinity THEN affine_infinity
    ELSE LET D == EcAdd([x |-> a.x, y |-> a.y], [x |-> a.x, y |-> a.y])
         IN  IF ec_is_infinity(D) THEN affine_infinity
             ELSE [x |-> D.x, y |-> D.y, infinity |-> FALSE]

\* C20: for every point P of the curve, the infinite point included, pointAdd
\* of a Jacobian form of P and the affine P gives, after toAffine, the same
\* point as pointDouble of that Jacobian form (and that point is 2 * P)
C20_AddIsDouble ==
    AddedToItself =>
        /\ pnt.sumAffine = pnt.dblAffine
        /\ pnt.dblAffine = DoubleOf(pnt.Q)

\* a point of the curve added to a form of itself with Z other than 1: the
\* two Jacobian results differ and are the same affine point
C20_Witness ==
    /\ AddedToItself
    /\ ~pnt.Q.infinity
    /\ pnt.P.Z > 1
    /\ pnt.sum # pnt.dbl
    /\ pnt.sumAffine = pnt.dblAffine
    /\ ~pnt.dblAffine.infinity

\* the infinite point, in a Jacobian form, added to the affine infinite point
AddedInfinity == AddedToItself /\ pnt.Q.infinity /\ pnt.sumAffine = affine_infinity


\* the affine point -a
Negated(a) == [x |-> a.x, y |-> (Curve.p - a.y) % Curve.p, infinity |-> a.infinity]

\* pointAdd(&sum, &P, &Q) has returned
PointAdded == ppc \in {"double", "affine", "done"}

\* t1 of pointAdd as big_subP leaves it (line 1178), before big_precise_reduce
DifferenceX(P, Q) == big_subP(big_mpyP(big_sqrP(P.Z), Q.x), P.X)

\* C21: pointAdd(P, Q), for P in any Jacobian form with Z precisely reduced:
\* Q infinite gives P unchanged; else P infinite gives the lift of Q; else P
\* and Q the same point gives 2Q; else P = -Q gives an infinite point (Z = 0);
\* any other pair gives a finite point
C21_SpecialCases ==
    PointAdded =>
        IF pnt.Q.infinity THEN pnt.sum = pnt.P
        ELSE IF jacobian_point_is_infinity(pnt.P) THEN pnt.sum = toJacobian(pnt.Q)
        ELSE IF pnt.P \in JacobianForms(pnt.Q) THEN toAffine(pnt.sum) = DoubleOf(pnt.Q)
        ELSE IF pnt.P \in JacobianForms(Negated(pnt.Q)) THEN pnt.sum.Z = 0
        ELSE pnt.sum.Z # 0

\* P = -Q in a form whose difference t1 is a multiple of the modulus other
\* than 0: the sum is infinite all the same
C21_Witness ==
    /\ PointAdded
    /\ ~pnt.Q.infinity
    /\ pnt.P \in JacobianForms(Negated(pnt.Q))
    /\ DifferenceX(pnt.P, pnt.Q) # 0
    /\ DifferenceX(pnt.P, pnt.Q) % Curve.p = 0
    /\ pnt.sum = jacobian_infinity


(***************************************************************************)
(*                        pointMpyP: the properties                        *)
(***************************************************************************)

\* pointMpyP has returned
PointMpyReturned == mpc = "done"

\* the generator as an affine_point_t
GeneratorPoint == [x |-> Curve.gx, y |-> Curve.gy, infinity |-> FALSE]

\* C22: pointMpyP(k, G) is the infinite point for k = 0, G for k = 1 and -G
\* for k = order - 1, and the infinite point for every negative k
C22_KnownMultiples ==
    PointMpyReturned /\ mpy.P = GeneratorPoint =>
        /\ mpy.k = 0 => mpy.tgt = affine_infinity
        /\ mpy.k = 1 => mpy.tgt = GeneratorPoint
        /\ mpy.k = Curve.order - 1 => mpy.tgt = Negated(GeneratorPoint)
        /\ mpy.k < 0 => mpy.tgt = affine_infinity

\* (order - 1) * G has been computed, and it is -G
C22_Witness ==
    /\ PointMpyReturned
    /\ mpy.P = GeneratorPoint
    /\ mpy.k = Curve.order - 1
    /\ mpy.i < 0
    /\ mpy.tgt = Negated(GeneratorPoint)

\* P added to itself k times by the group law, as an affine_point_t: the
\* sum of k mod 2^w copies of P and of k div 2^w copies of the sum of 2^w
\* copies of P, w being the bits of a word
ScalarMultiple(k, P) ==
    IF P.infinity THEN affine_infinity
    ELSE LET A == [x |-> P.x, y |-> P.y]
             W == 2 ^ ScalarWordBits
             S == EcAdd(EcMul(k % W, A), EcMul(k \div W, EcMul(W, A)))
         IN  IF ec_is_infinity(S) THEN affine_infinity
             ELSE [x |-> S.x, y |-> S.y, infinity |-> FALSE]

\* the pair of bits the loop of pointMpyP starts at: the highest one that is not zero
RECURSIVE TopPair(_, _)
TopPair(k, i) == IF i < 0 \/ big_get_2bits(k, i) # 0 THEN i ELSE TopPair(k, i - 2)

\* C25: for every k >= 0 and every affine P the 2-bit windowed loop of
\* pointMpyP returns P added to itself k times, whatever the number of leading
\* zero words and pairs of k; an infinite P gives the infinite point
C25_WindowedMultiply ==
    /\ PointMpyReturned /\ mpy.k >= 0 => mpy.tgt = ScalarMultiple(mpy.k, mpy.P)
    /\ PointMpyReturned /\ mpy.P.infinity => mpy.tgt = affine_infinity
    /\ mpc = "loop" => mpy.i <= TopPair(mpy.k, ScalarBits - 2)

\* a scalar above the order of the curve whose high word is zero has been
\* multiplied with a finite point
C25_Witness ==
    /\ PointMpyReturned
    /\ ~mpy.P.infinity
    /\ mpy.k > Curve.order
    /\ ScalarWord(mpy.k, BigLen - 1) = 0
    /\ mpy.i < 0
    /\ mpy.tgt = ScalarMultiple(mpy.k, mpy.P)
    /\ ~mpy.tgt.infinity


(***************************************************************************)
(*          bigval_to_binary and binary_to_bigval: the properties          *)
(***************************************************************************)

\* the two's-complement value of the low BigBytes bytes of an unsigned number
AsBigval(u) ==
    LET low == u % BigRange
    IN  IF low >= BigRange \div 2 THEN low - BigRange ELSE low

\* C23: bigval_to_binary(x, n) writes n bytes, the big-endian bytes of x
\* sign-extended when n is above the width of a bigval_t and without its high
\* bytes when n is below; binary_to_bigval keeps the low bytes of a longer
\* input; and reading back what was written gives x when n is at least the
\* width and x truncated to n bytes when it is less
C23_BinaryRoundTrip ==
    /\ app.f = "to_binary" /\ apc \in {"to_bigval", "done"} =>
        /\ Len(app.bytes) = app.n
        /\ BytesValue(app.bytes) = app.x % (ByteRange ^ app.n)
        /\ \A j \in 1..(app.n - BigBytes) : app.bytes[j] = IF app.x < 0 THEN ByteRange - 1 ELSE 0
    /\ app.f = "import" /\ apc = "done" =>
        app.tgt = AsBigval(BytesValue(app.src))
    /\ app.f = "to_binary" /\ apc = "done" =>
        app.tgt = IF app.n >= BigBytes THEN app.x ELSE app.x % (ByteRange ^ app.n)

\* a negative bigval_t written longer than it is and read back
C23_Witness ==
    /\ app.f = "to_binary"
    /\ apc = "done"
    /\ app.x < 0
    /\ app.n > BigBytes
    /\ app.bytes[1] = ByteRange - 1
    /\ app.tgt = app.x

\* a negative bigval_t written shorter than it is reads back as a number that
\* is not negative
ReadBackTruncated ==
    /\ app.f = "to_binary"
    /\ apc = "done"
    /\ app.x < 0
    /\ app.n < BigBytes
    /\ app.tgt >= 0


(***************************************************************************)
(*          big_addP, big_subP, big_mpyP: approximate reduction            *)
(***************************************************************************)

\* a with 2^(9w - 1) added: the unsigned numbers these make are in the order
\* of the two's-complement numbers
Biased(a) == [a EXCEPT ![MSW + 1] = (a[MSW + 1] + (WordRange \div 2)) % WordRange]

\* a < b as two's-complement numbers
SignedLess(a, b) == NatLess(NatOf(Biased(a)), NatOf(Biased(b)))

\* -p <= a < 2p
ApproximatelyReduced(a) ==
    /\ ~SignedLess(a, big_sub(big_zero, modulusP))
    /\ SignedLess(a, big_add(modulusP, modulusP))

\* a sum (of a and b) or difference (of a and the negation of b) that left
\* the range of a bigval_t has the sign neither operand had
Overflowed(a_negative, b_negative, written) ==
    a_negative = b_negative /\ big_is_negative(written) # a_negative

\* C26: for a and b in [-p, 2p), big_addP, big_subP and big_mpyP return a
\* value congruent to a + b, a - b and a * b that is again in [-p, 2p); the sum
\* and the difference before reduction fit a bigval_t and the entries of w
\* fit their accumulators
C26_ApproximateReduction ==
    /\ BigReturned("addP") =>
        /\ ~Overflowed(big_is_negative(bg.a), big_is_negative(bg.b), bg.arg)
        /\ Residue(bg.tgt, modulusP) =
               NatAddMod(Residue(bg.a, modulusP), Residue(bg.b, modulusP), NatOf(modulusP))
        /\ ApproximatelyReduced(bg.tgt)
    /\ BigReturned("subP") =>
        /\ ~Overflowed(big_is_negative(bg.a), ~big_is_negative(bg.b), bg.arg)
        /\ Residue(bg.tgt, modulusP) =
               NatSubMod(Residue(bg.a, modulusP), Residue(bg.b, modulusP), NatOf(modulusP))
        /\ ApproximatelyReduced(bg.tgt)
    /\ bg.call = "mpy" /\ bpc = "mpy_return" =>
        /\ Residue(bg.product, modulusP) = ProductResidue(bg.a, bg.b, modulusP)
        /\ ApproximatelyReduced(bg.product)
    /\ bg.call = "mpy" /\ bpc \in {"mpy_reduce", "mpy_copy"} =>
        \A n \in 1..(2 * BIGLEN) : InInt64(bg.w[n])
    /\ bg.call \in {"addP", "subP", "mpy"} =>
        ApproximatelyReduced(bg.a) /\ ApproximatelyReduced(bg.b)

\* 2p - 1 was added to itself: the sum has a most significant word of 3 and
\* the result is in range
C26_Witness ==
    /\ BigReturned("addP")
    /\ bg.a = bg.b
    /\ ~SignedLess(bg.a, big_sub(big_add(modulusP, modulusP), big_one))
    /\ bg.arg[MSW + 1] = 3
    /\ ApproximatelyReduced(bg.tgt)
    /\ bg.tgt # bg.arg

\* -p was subtracted from 2p - 1, and -p multiplied with 2p - 1
ExtremesReduced ==
    \/ /\ BigReturned("subP")
       /\ bg.a = big_sub(big_zero, modulusP)
       /\ big_is_negative(bg.arg)
       /\ ApproximatelyReduced(bg.tgt)
    \/ /\ bg.call = "mpy" /\ bpc = "mpy_return"
       /\ bg.a = big_sub(big_zero, modulusP)
       /\ bg.b = big_sub(big_add(modulusP, modulusP), big_one)


\* a bigval_t that is precisely reduced
FieldElements == 0..(Curve.p - 1)

\* the accumulator Q of pointMpyP holds a point
AccumulatorWritten == mpy.Q # NoPointYet

\* the pairs of bits of k above pair i, as a number: what the loop of
\* pointMpyP has consumed when its next pair is pair i
ConsumedBits(k, i) == k \div (2 ^ (i + 2))

\* C27: given a P whose Z is precisely reduced, every Jacobian point that
\* pointDouble and pointAdd return has a precisely reduced Z, so that the
\* accumulator of pointMpyP has one throughout and its Z is 0 exactly when
\* the point it holds is the infinite point
C27_ReducedZ ==
    /\ PointAdded => pnt.P.Z \in FieldElements /\ pnt.sum.Z \in FieldElements
    /\ ppc \in {"affine", "done"} => pnt.dbl.Z \in FieldElements
    /\ AccumulatorWritten => mpy.Q.Z \in FieldElements
    /\ mpc = "loop" =>
        (jacobian_point_is_infinity(mpy.Q) <=> ScalarMultiple(ConsumedBits(mpy.k, mpy.i), mpy.P).infinity)

\* inside the loop of pointMpyP the accumulator has a Z other than 0 and 1,
\* precisely reduced, beside an X that is not
C27_Witness ==
    /\ mpc = "loop"
    /\ mpy.i < ScalarBits - 2
    /\ mpy.Q.Z \in FieldElements \ {0, 1}
    /\ mpy.Q.X \notin FieldElements

\* pointAdd has returned from its general case with a Z other than 0 and 1
AddedInGeneral ==
    /\ PointAdded
    /\ pnt.sum.Z \in FieldElements \ {0, 1}
    /\ pnt.sum # pnt.P
    /\ pnt.P \notin JacobianForms(pnt.Q)


(***************************************************************************)
(*                 big_halveP on approximately reduced values              *)
(***************************************************************************)

NegativeHalved ==
    /\ BigReturned("halveP")
    /\ big_is_odd(bg.a)
    /\ big_is_negative(bg.a)
    /\ bg.a # big_sub(big_zero, modulusP)


(***************************************************************************)
(*                   big_divide with a zero denominator                    *)
(***************************************************************************)

\* big_divide is running with a denominator of zero
DividingByZero == bg.call = "divide" /\ bg.b = big_zero /\ bpc # "idle"

\* u is zero, the call is at the test of the outer loop for the first time
\* or inside the first inner loop, and tgt has not been written
InFirstHalvingLoop ==
    /\ bg.u = big_zero
    /\ ~big_is_odd(bg.u)
    /\ bpc \in {"divide_loop", "divide_halve_u"}
    /\ bpc = "divide_loop" => bg.passes = 0 /\ bg.x1 = bg.a
    /\ bg.tgt = <<>>

\* C29: big_divide with a zero denominator does not return: u stays zero,
\* which is even, so the call enters the first inner loop and every step of
\* it is a pass of that loop, and nothing is written to tgt
C29_ZeroDenominator ==
    /\ [](DividingByZero => InFirstHalvingLoop)
    /\ [][DividingByZero => DividingByZero' /\ bpc' = "divide_halve_u" /\ bg'.tgt = bg.tgt]_vars

\* the first inner loop has run as many passes as are followed, on a
\* numerator that it has changed
C29_Witness ==
    /\ DividingByZero
    /\ bpc = "divide_halve_u"
    /\ bg.passes = MaxPasses
    /\ bg.x1 # bg.a
    /\ bg.a # big_zero

\* the first inner loop has ended only for denominators other than zero
OnlyZeroLoops == bg.call = "divide" /\ bg.passes = MaxPasses => bg.b = big_zero

\* a division by a denominator other than zero has returned
NonZeroDivided == BigReturned("divide") /\ bg.b # big_zero /\ bg.tgt # <<>>


(***************************************************************************)
(*                     toAffine after toJacobian                           *)
(***************************************************************************)

\* toAffine has returned in a call that began with f
Lowered(f) == app.f = f /\ apc = "done"

\* C30: toAffine(toJacobian(P)) is P for every affine P with precisely reduced
\* coordinates, the infinite point included, and toAffine of a Jacobian point
\* with a Z of 0 is affine_infinity
C30_RoundTrip ==
    /\ Lowered("toJacobian") => app.back = app.a
    /\ Lowered("toAffine") => app.back = affine_infinity

\* toJacobian gave the infinite point a Z of 1, and toAffine made a finite
\* point of it
C30_Witness ==
    /\ Lowered("toJacobian")
    /\ app.a = affine_infinity
    /\ app.J = [X |-> 0, Y |-> 0, Z |-> 1]
    /\ ~jacobian_point_is_infinity(app.J)
    /\ app.back = [x |-> 0, y |-> 0, infinity |-> FALSE]

\* what holds of the two functions: the round trip gives P back when P is
\* finite, and toAffine of a Jacobian point with a Z of 0 is affine_infinity
FiniteRoundTrip ==
    /\ Lowered("toJacobian") /\ ~app.a.infinity => app.back = app.a
    /\ Lowered("toAffine") => app.back = affine_infinity

\* a finite point with coordinates other than 0 made the round trip
FiniteLowered ==
    /\ Lowered("toJacobian")
    /\ ~app.a.infinity
    /\ app.a.x > 1 /\ app.a.y > 1
    /\ app.back = app.a

\* toAffine was applied to a Z of 0 beside an X and Y other than those of
\* jacobian_infinity
ZeroZLowered == Lowered("toAffine") /\ app.J.X > 1 /\ app.J.Y # app.J.X

=========================================================================
